---- MODULE Spec2Model ----
(***************************************************************************)
(* Background orchestration of paisa: the execution ledger                 *)
(* (internal/model/task_execution), the scheduler (internal/background)    *)
(* with the manual triggers of the server, and the Kite credential         *)
(* manager (internal/background/kite/token_manager.go).                    *)
(*                                                                         *)
(* Time is a counter of intervals.  A calendar day has SlotsPerDay         *)
(* intervals; the cron expression of a task names the boundary at which    *)
(* one of them begins.  Timestamp 0 is Go's zero time.Time.  A behaviour   *)
(* sees at most MaxTicks interval boundaries, MaxRuns task executions and  *)
(* MaxCalls calls of GetValidAccessToken.                                  *)
(***************************************************************************)
EXTENDS Integers, Sequences, FiniteSets, Bags, TLC

\* ------------------------------------------------------------------ bounds
MaxTicks == 3
MaxRuns == 2
MaxCalls == 2

\* the intervals of a day cut by the two schedule instants (16:00, 18:00)
SlotsPerDay == 3

\* --------------------------------------------------------------- constants
maxRetries == 5

DailyTradesFetch == "Daily Trades Fetch"
DailyPriceUpdate == "Daily Price Update"

\* registerTasks / runStartupTasks: the fixed roster, in order
Tasks == <<DailyTradesFetch, DailyPriceUpdate>>
TaskNames == {Tasks[i] : i \in 1..Len(Tasks)}

\* a variant of Task.ShouldRunOnStartup() that is false for every task
ShouldRunOnStartupNever(task) == FALSE

\* Task.ShouldRunOnStartup()
ShouldRunOnStartup(task) == task = DailyTradesFetch

\* Task.Schedule(): "0 16 * * *" and "0 18 * * *" are two distinct instants
\* of every day, 16:00 before 18:00; the interval that begins there
ScheduleSlot(task) == IF task = DailyTradesFetch THEN 1 ELSE 2

ZeroTime == 0
\* the first process starts in the last interval of the first day
FirstTime == 2 * SlotsPerDay - 1
MaxTime == FirstTime + MaxTicks
Times == FirstTime..MaxTime

\* time.Date(t.Year(), t.Month(), t.Day(), 0, ...): truncation to the day
DateOf(t) == t \div SlotsPerDay

\* now: the clock; ledger: the rows of task_executions in id order; runs:
\* the bag of task executions in flight; launched: how many executions the
\* behaviour has started; sched: the Scheduler singleton; lastSucc: for
\* every task the timestamp of the last committed UpdateLastSuccessfulRun;
\* kite: the credential row and the GetValidAccessToken call; ledgerCalls:
\* the ledger calls followed attempt by attempt and statement by statement;
\* autoLogin: the DoAutoLogin call, request by request; nextRuns: what the
\* latest GetNextRunTimes() call has read and answered; kiteAuth: the
\* kite_auth table with the rows of several API keys; taskExecutions: the
\* task_executions table with every column of its rows
VARIABLES now, ledger, runs, launched, sched, lastSucc, kite, ledgerCalls,
          autoLogin, nextRuns, kiteAuth, taskExecutions

vars == <<now, ledger, runs, launched, sched, lastSucc, kite, ledgerCalls,
          autoLogin, nextRuns, kiteAuth, taskExecutions>>
\* the variables a login attempt leaves alone besides kite
schedVarsButLogin ==
    <<now, ledger, runs, launched, sched, lastSucc, ledgerCalls, nextRuns,
      kiteAuth, taskExecutions>>
\* the variables a token call leaves alone
schedVars == <<now, ledger, runs, launched, sched, lastSucc, ledgerCalls,
               autoLogin, nextRuns, kiteAuth, taskExecutions>>

Min(S) == CHOOSE x \in S : \A y \in S : x <= y

\* ======================================================= execution ledger
\* TaskExecution (without ID, which is the row's position, and the
\* created/updated stamps)
NewRow(name, lastRun, lastOk, ok) ==
    [task_name |-> name, last_run |-> lastRun,
     last_successful_run |-> lastOk, success |-> ok]

\* tx.Where("task_name = ?", taskName).First(&execution): position of the
\* first row of that name, 0 for gorm.ErrRecordNotFound
FirstRow(l, name) ==
    LET hits == {i \in 1..Len(l) : l[i].task_name = name}
    IN  IF hits = {} THEN 0 ELSE Min(hits)

RowsOf(l, name) == {i \in 1..Len(l) : l[i].task_name = name}

\* variants of the transaction of UpdateLastRun: one that also resets
\* last_successful_run, one that creates without looking the row up, one
\* that writes nothing
UpdateLastRunTxResetting(l, name, t) ==
    LET i == FirstRow(l, name)
    IN  IF i = 0
        THEN Append(l, NewRow(name, t, ZeroTime, FALSE))
        ELSE [l EXCEPT ![i].last_run = t, ![i].last_successful_run = ZeroTime,
                       ![i].success = FALSE]

UpdateLastRunTxCreating(l, name, t) ==
    Append(l, NewRow(name, t, ZeroTime, FALSE))

UpdateLastRunTxSkipped(l, name, t) == l

\* the transaction of UpdateLastRun, committed with the call's timestamp t
UpdateLastRunTx(l, name, t) ==
    LET i == FirstRow(l, name)
    IN  IF i = 0
        THEN Append(l, NewRow(name, t, ZeroTime, FALSE))
        ELSE [l EXCEPT ![i].last_run = t, ![i].success = FALSE]

\* a variant of the transaction of UpdateLastSuccessfulRun that creates
\* without looking the row up
UpdateLastSuccessfulRunTxCreating(l, name, t) ==
    Append(l, NewRow(name, t, t, TRUE))

\* a variant of the transaction of UpdateLastSuccessfulRun that leaves
\* the last_run of an existing row as the write before it set it
UpdateLastSuccessfulRunTxKeepingLastRun(l, name, t) ==
    LET i == FirstRow(l, name)
    IN  IF i = 0
        THEN Append(l, NewRow(name, t, t, TRUE))
        ELSE [l EXCEPT ![i].last_successful_run = t, ![i].success = TRUE]

\* the transaction of UpdateLastSuccessfulRun
UpdateLastSuccessfulRunTx(l, name, t) ==
    LET i == FirstRow(l, name)
    IN  IF i = 0
        THEN Append(l, NewRow(name, t, t, TRUE))
        ELSE [l EXCEPT ![i].last_run = t, ![i].last_successful_run = t,
                       ![i].success = TRUE]

\* TaskExecution with every column but ID, which is the row's position
TaskExecution(name, lastRun, lastOk, ok, createdAt, updatedAt) ==
    [task_name |-> name, last_run |-> lastRun, last_successful_run |-> lastOk,
     success |-> ok, created_at |-> createdAt, updated_at |-> updatedAt]

\* a variant of the Save of UpdateLastRun that writes the row as a new
\* struct would be written, the columns it does not set at their zero
\* values
UpdateLastRunRowFromZero(l, name, t) ==
    LET i == FirstRow(l, name)
    IN  IF i = 0
        THEN Append(l, TaskExecution(name, t, ZeroTime, FALSE, t, t))
        ELSE [l EXCEPT ![i] = TaskExecution(name, t, ZeroTime, FALSE, ZeroTime, t)]

\* the transaction of UpdateLastRun over the whole row: Create with
\* TaskName, LastRun, Success, CreatedAt, UpdatedAt; or Save of the row
\* read with LastRun, Success and UpdatedAt set
UpdateLastRunRow(l, name, t) ==
    LET i == FirstRow(l, name)
    IN  IF i = 0
        THEN Append(l, TaskExecution(name, t, ZeroTime, FALSE, t, t))
        ELSE [l EXCEPT ![i].last_run = t, ![i].success = FALSE,
                       ![i].updated_at = t]

\* the transaction of UpdateLastSuccessfulRun over the whole row
UpdateLastSuccessfulRunRow(l, name, t) ==
    LET i == FirstRow(l, name)
    IN  IF i = 0
        THEN Append(l, TaskExecution(name, t, t, TRUE, t, t))
        ELSE [l EXCEPT ![i].last_run = t, ![i].last_successful_run = t,
                       ![i].success = TRUE, ![i].updated_at = t]

\* a variant of GetLastSuccessfulRun that answers as GetLastRun does,
\* with the last_run of the row
GetLastRunOfRow(l, name) ==
    LET i == FirstRow(l, name)
    IN  IF i = 0 THEN ZeroTime ELSE l[i].last_run

\* GetLastSuccessfulRun, when the read succeeds
GetLastSuccessfulRun(l, name) ==
    LET i == FirstRow(l, name)
    IN  IF i = 0 THEN ZeroTime ELSE l[i].last_successful_run

\* a variant of ShouldRunToday that compares the dates with <=
ShouldRunTodayInclusive(l, name, today, read) ==
    LET lastSuccessfulRun == GetLastSuccessfulRun(l, name)
    IN  IF read # "ok" THEN [run |-> FALSE, err |-> TRUE]
        ELSE IF lastSuccessfulRun = ZeroTime THEN [run |-> TRUE, err |-> FALSE]
        ELSE [run |-> DateOf(lastSuccessfulRun) <= DateOf(today), err |-> FALSE]

\* a variant of ShouldRunToday that takes a failed read for "never ran"
ShouldRunTodayNeverRanOnError(l, name, today, read) ==
    LET lastSuccessfulRun == GetLastSuccessfulRun(l, name)
    IN  IF read # "ok" THEN [run |-> TRUE, err |-> FALSE]
        ELSE IF lastSuccessfulRun = ZeroTime THEN [run |-> TRUE, err |-> FALSE]
        ELSE [run |-> DateOf(lastSuccessfulRun) < DateOf(today), err |-> FALSE]

\* ShouldRunToday: read is the outcome of the read under its retry policy
\* ("ok" or "err"), today the value of time.Now() in the call
ShouldRunToday(l, name, today, read) ==
    LET lastSuccessfulRun == GetLastSuccessfulRun(l, name)
    IN  IF read # "ok" THEN [run |-> FALSE, err |-> TRUE]
        ELSE IF lastSuccessfulRun = ZeroTime THEN [run |-> TRUE, err |-> FALSE]
        ELSE [run |-> DateOf(lastSuccessfulRun) < DateOf(today), err |-> FALSE]

\* backoff := 10 * time.Millisecond, in milliseconds
initialBackoff == 10

\* the callers that can be inside a ledger call at the same time (an
\* execution started by the scheduler and one started by hand)
Callers == {"a", "b"}

\* a ledger call: pc is "idle", "first" (before the transaction of
\* iteration i), "write" (after its First, before its Create or Save) or
\* "returned"; t is now of the call; i and backoff are the loop's
\* variables; snap is what First read; hist lists how the attempts ended,
\* waits the sleeps, res is the error returned
IdleCall ==
    [pc |-> "idle", op |-> "none", name |-> "none", t |-> ZeroTime, i |-> 0,
     backoff |-> initialBackoff, snap |-> <<>>, hist |-> <<>>, waits |-> <<>>,
     res |-> "none"]

\* serial: the rows after the committed calls, each applied in one piece
\* in the order of the commits
InitStore == [proc |-> [c \in Callers |-> IdleCall], serial |-> <<>>]

\* the closure of UpdateLastRun or of UpdateLastSuccessfulRun
TxOf(op, l, name, t) ==
    IF op = "ulr" THEN UpdateLastRunTx(l, name, t)
    ELSE UpdateLastSuccessfulRunTx(l, name, t)

\* tx.Create(&execution) or tx.Save(&execution): execution is the row
\* First found in snap (or none), with the fields the closure sets; Save
\* writes all its columns to the row of its id
WriteTx(l, snap, op, name, t) ==
    LET i   == FirstRow(snap, name)
        new == TxOf(op, snap, name, t)
    IN  IF i = 0 THEN Append(l, new[Len(new)]) ELSE [l EXCEPT ![i] = new[i]]

\* a variant of the transaction without isolation
ConflictUndetected(snap, l) == FALSE

\* db.Transaction: a transaction whose read is no longer current cannot
\* write; its statement fails with "database is locked"
Conflict(snap, l) == snap # l

\* variants of the loop: one that retries after every error, one that
\* never retries
RetryOnLockedDatabaseAnyError(i, outcome) ==
    IF outcome = "ok" THEN "nil"
    ELSE IF i < maxRetries - 1 THEN "continue"
    ELSE outcome

RetryOnLockedDatabaseOnce(i, outcome) ==
    IF outcome = "ok" THEN "nil" ELSE outcome

\* one iteration i of the loop of retryOnLockedDatabase, the operation
\* having ended "ok", "busy" (database is locked) or "fail" (anything else)
Outcomes == {"ok", "busy", "fail"}
RetryOnLockedDatabase(i, outcome) ==
    IF outcome = "ok" THEN "nil"
    ELSE IF outcome = "busy" /\ i < maxRetries - 1 THEN "continue"
    ELSE outcome

\* what the callers test: err != nil
ErrOf(res) == IF res = "nil" THEN "nil" ELSE "err"

\* the rest of an iteration of retryOnLockedDatabase whose operation()
\* ended in outcome: return (the call's arguments and now go out of
\* scope), or sleep, double the backoff and go round
AfterAttempt(p, outcome) ==
    LET res == RetryOnLockedDatabase(p.i, outcome)
        q   == [p EXCEPT !.hist = Append(@, outcome), !.snap = <<>>]
    IN  IF res = "continue"
        THEN [q EXCEPT !.waits = Append(@, p.backoff), !.backoff = 2 * @,
                       !.i = @ + 1, !.pc = "first"]
        ELSE [q EXCEPT !.pc = "returned", !.res = res, !.op = "none",
                       !.name = "none", !.t = ZeroTime]

\* ================================================================== runs
\* one execution of a task: a cron fire, a startup catch-up or a manual
\* trigger.  pc is the statement it stands before; t is the timestamp of
\* the ledger call in progress once its first attempt has ended busy
\* (ZeroTime otherwise); ulr is the err of UpdateLastRun while the body
\* runs, body the err of task.Run ("none" before the return); hist is the
\* order of its events.  An execution that returns leaves the collection.
NewRun(path, task) ==
    [path |-> path, task |-> task, pc |-> "ulr", t |-> ZeroTime,
     ulr |-> "none", body |-> "none", hist |-> <<>>]

Running == BagToSet(runs)

\* the context the body of an execution is given: s.ctx on the
\* scheduler's paths, context.Background() on the manual one
BodyContext(run) == IF run.path = "manual" THEN "Background" ELSE "s.ctx"

\* go func() {...}(): one more execution in flight
Launch(rs, path, task) == rs (+) SetToBag({NewRun(path, task)})

\* the execution run moves on to the state after
Step(rs, run, after) == (rs (-) SetToBag({run})) (+) SetToBag({after})

\* the executions of the given launch paths that have not returned
InFlight(rs, paths) == {run \in BagToSet(rs) : run.path \in paths}

\* ============================================================= scheduler
\* Scheduler: started, the cron engine ("nil" before Initialize, "new"
\* once built, "running", "stopped"), entryToTask (entry id = position),
\* the Next field of every cron entry, the shared context, and the phase
\* of a Stop() that holds mu ("no" when mu is free); again tells that a
\* call that found nothing to do (Initialize on a started scheduler,
\* Stop() on one that is not started) has returned since started was
\* last set.
InitSched ==
    [started |-> FALSE, cron |-> "nil", entryToTask |-> <<>>,
     next |-> [n \in TaskNames |-> ZeroTime], ctxDone |-> FALSE,
     stopping |-> "no", skipped |-> {}, again |-> FALSE]

\* registerTasks: registerTask for the roster from position i, each
\* AddFunc giving the next entry id
RECURSIVE registerTasks(_, _)
registerTasks(entryToTask, i) ==
    IF i > Len(Tasks) THEN entryToTask
    ELSE registerTasks(Append(entryToTask, Tasks[i]), i + 1)

\* a variant of Schedule.Next(t) that may answer t itself
NextAtOrAfter(task, t) ==
    Min({u \in t..(t + SlotsPerDay - 1) : u % SlotsPerDay = ScheduleSlot(task)})

\* cron's Schedule.Next(t): the first activation strictly after t
NextAfter(task, t) ==
    Min({u \in (t + 1)..(t + SlotsPerDay) : u % SlotsPerDay = ScheduleSlot(task)})

Registered(sc) == {sc.entryToTask[i] : i \in 1..Len(sc.entryToTask)}

\* GetNextRunTimes(): nil (the empty map) unless started
GetNextRunTimes(sc) ==
    IF ~sc.started THEN <<>>
    ELSE [n \in Registered(sc) |-> sc.next[n]]

\* ========================================================= login emulator
\* A URL is the sequence of its pieces: "?", "&", "=", "#", the names
\* "sess_id" and "request_token", and other runs of characters ("x", "v",
\* "s1", "t1", "t2", "/finish").  NoLocation is the "" that Header.Get
\* answers for a missing header.
NoLocation == <<>>

\* the capture group ([^&]+) from position i
RECURSIVE Capture(_, _)
Capture(url, i) ==
    IF i > Len(url) \/ url[i] = "&" THEN <<>>
    ELSE <<url[i]>> \o Capture(url, i + 1)

\* regexp.MustCompile(name + `=([^&]+)`).FindStringSubmatch(url): the
\* capture of the leftmost match, <<>> when len(matches) < 2.  The
\* pattern is not anchored: it matches wherever the text name= occurs
FindStringSubmatch(name, url) ==
    LET hits == {i \in 1..(Len(url) - 2) :
                    url[i] = name /\ url[i + 1] = "=" /\ url[i + 2] # "&"}
    IN  IF hits = {} THEN <<>> ELSE Capture(url, Min(hits) + 2)

\* the Location headers the provider may answer at step 1, at step 4
\* and at step 5
Locations1 ==
    {NoLocation,
     <<"?", "x", "=", "v">>,
     <<"?", "x", "=", "v", "&", "sess_id", "=", "s1">>}
Locations4 == {NoLocation, <<"/finish", "?", "sess_id", "=", "s1">>}
Locations5 ==
    {NoLocation,
     <<"?", "x", "=", "v">>,
     <<"?", "request_token", "=", "t1">>,
     <<"?", "x", "=", "v", "&", "request_token", "=", "t1", "&", "x", "=", "v">>,
     <<"?", "request_token", "=", "&", "x", "=", "v">>,
     <<"?", "request_token", "=", "t1", "#", "x">>,
     <<"?", "x", "request_token", "=", "t2">>,
     <<"?", "x", "request_token", "=", "t2", "&", "request_token", "=", "t1">>}

\* what one step of DoAutoLogin can meet: http.NewRequest fails (no
\* request is issued), client.Do fails, or a response arrives with its
\* Location header, the status of its JSON body ("unreadable" when
\* io.ReadAll fails, "unparsable" when json.Unmarshal fails) and the
\* cookies it sets; the response of step n can set the cookie n
Responses(step, locations, statuses) ==
    [kind : {"request error", "transport error"}, location : {NoLocation},
     status : {"none"}, cookies : {{}}]
    \cup [kind : {"response"}, location : locations, status : statuses,
          cookies : SUBSET {step}]
Statuses == {"success", "error", "unreadable", "unparsable"}

\* generateTOTP failed: step 3 ends before its request
TotpError ==
    [kind |-> "totp error", location |-> NoLocation, status |-> "none",
     cookies |-> {}]

\* a variant of the status test that lets every body pass
StatusSuccessAlways(r) == TRUE

\* loginResponse.Status != "success" / twofaResponse.Status != "success",
\* after the read and the parse of the body
StatusSuccess(r) == r.status = "success"

\* resp.Cookies()
Cookies(r) == r.cookies

\* the call: pc is "idle", "step1" .. "step5" or "returned"; sent lists
\* the requests issued with the cookies added to each; resps lists what
\* each step met; sessID and location are the locals of that name; ret is
\* what the call returned
InitAutoLogin ==
    [pc |-> "idle", sent |-> <<>>, resps |-> <<>>, sessID |-> <<>>,
     location |-> NoLocation, ret |-> [token |-> <<>>, err |-> "none"]]

\* client.Do(req) with the cookies added to req, unless NewRequest (or
\* generateTOTP) failed before it, and what the step met
Do(l, step, cookies, r) ==
    [l EXCEPT !.sent = IF r.kind \in {"request error", "totp error"} THEN @
                       ELSE Append(@, [step |-> step, cookies |-> cookies]),
              !.resps = Append(@, r)]

\* return "", fmt.Errorf(...)
ReturnError(l) ==
    [l EXCEPT !.pc = "returned", !.ret = [token |-> <<>>, err |-> "err"]]

\* ==================================================== credential manager
\* the Go string ""
EmptyToken == 0

\* the kite_auth rows of the api key (api_key is a unique index);
\* GetAuthByAPIKey answers nil when there is none
NoAuth == <<>>

RequestTokenOf(auth) == IF auth = NoAuth THEN EmptyToken ELSE auth[1].request_token
AccessTokenOf(auth) == IF auth = NoAuth THEN EmptyToken ELSE auth[1].access_token

\* StoreRequestToken: create the row of the api key or update it in place
StoreRequestToken(auth, requestToken) ==
    IF auth = NoAuth
    THEN <<[request_token |-> requestToken, access_token |-> EmptyToken]>>
    ELSE [auth EXCEPT ![1].request_token = requestToken]

\* a variant of UpdateAccessToken that reports success without writing
UpdateAccessTokenUnwritten(auth, accessToken) == [err |-> "nil", auth |-> auth]

\* UpdateAccessToken: gorm.ErrRecordNotFound without a row
UpdateAccessToken(auth, accessToken) ==
    IF auth = NoAuth
    THEN [err |-> "err", auth |-> auth]
    ELSE [err |-> "nil", auth |-> [auth EXCEPT ![1].access_token = accessToken]]

\* what the profile request of checkIfAccessTokenIsExpired can end in: the
\* request cannot be built, the transport fails (or times out), or a
\* response arrives: 403 with a body that cannot be read, cannot be parsed,
\* names a TokenException or names something else, 200, or another status
ProbeOutcomes ==
    {"request error", "transport error", "403 unreadable body",
     "403 unparsable body", "403 TokenException", "403", "200", "500"}

\* resp.StatusCode, 0 when there is no response
StatusCode(outcome) ==
    IF outcome \in {"request error", "transport error"} THEN 0
    ELSE IF outcome = "200" THEN 200
    ELSE IF outcome = "500" THEN 500
    ELSE 403

\* a variant of checkIfAccessTokenIsExpired that reports every token expired
checkIfAccessTokenIsExpiredAlways(outcome) == TRUE

\* a variant of checkIfAccessTokenIsExpired that takes a response for
\* "not expired" unless it is a TokenException
checkIfAccessTokenIsExpiredOnTokenException(outcome) ==
    IF outcome = "request error" THEN TRUE
    ELSE IF outcome = "transport error" THEN TRUE
    ELSE IF StatusCode(outcome) = 403 /\ outcome = "403 unreadable body" THEN TRUE
    ELSE IF StatusCode(outcome) = 403 /\ outcome = "403 unparsable body" THEN TRUE
    ELSE IF StatusCode(outcome) = 403 /\ outcome = "403 TokenException" THEN TRUE
    ELSE FALSE

\* checkIfAccessTokenIsExpired, return by return: request error, transport
\* error, the three returns of the 403 branch, then 200 is "not expired"
\* and every other status "expired"
checkIfAccessTokenIsExpired(outcome) ==
    IF outcome = "request error" THEN TRUE
    ELSE IF outcome = "transport error" THEN TRUE
    ELSE IF StatusCode(outcome) = 403 /\ outcome = "403 unreadable body" THEN TRUE
    ELSE IF StatusCode(outcome) = 403 /\ outcome = "403 unparsable body" THEN TRUE
    ELSE IF StatusCode(outcome) = 403 /\ outcome = "403 TokenException" THEN TRUE
    ELSE IF StatusCode(outcome) = 200 THEN FALSE
    ELSE TRUE

\* getAccessTokenFromRequestTokenWithRetry: const maxRetries (the ledger's
\* retry policy has a maxRetries of its own)
tokenMaxRetries == 2

\* a variant of the test for the last attempt that allows one more
LastAttemptLate(attempt) == attempt = tokenMaxRetries + 1

\* if attempt == maxRetries
LastAttempt(attempt) == attempt = tokenMaxRetries

\* the credential store (auth: the row of the one api key) and the single
\* caller of GetValidAccessToken: pc, the locals of the call (cached is
\* auth.AccessToken as read on entry, requestToken, attempt, accessToken),
\* its result ret, and what the call has done so far: probe (the outcome of
\* the profile request), logins (DoAutoLogin calls), exchanges
\* (FetchAccessTokenFromRequestToken calls), writes (updates of the row);
\* auth0 is the row as the call found it.  minted numbers the tokens the
\* provider hands out.  secrets tells whether loadKiteConfig finds every
\* static secret of the account during the call.  submitted lists the
\* session requests sent to the provider so far, over all calls: the call,
\* the request token, and whether the provider accepted it.
InitKite ==
    [auth |-> NoAuth, pc |-> "idle", calls |-> 0, minted |-> 0,
     cached |-> EmptyToken, requestToken |-> EmptyToken, attempt |-> 0,
     accessToken |-> EmptyToken, ret |-> [token |-> EmptyToken, err |-> "none"],
     probe |-> "none", logins |-> 0, exchanges |-> 0, writes |-> 0,
     auth0 |-> NoAuth, secrets |-> TRUE, submitted |-> <<>>]

\* ------------------------------------------- the kite_auth table by key
\* the accounts configured, and the tokens the provider hands out
ApiKeys == {"k1", "k2"}
KiteTokens == {1, 2}

\* db.First(&auth), the query of GetLatestAuth: the first row whatever
\* its api key (0: gorm.ErrRecordNotFound)
FirstOfAnyKey(table, apiKey) == IF table = <<>> THEN 0 ELSE 1

\* db.Where("api_key = ?", apiKey).First(&auth): the position (the ID) of
\* the first row of that api key, 0 for gorm.ErrRecordNotFound
WhereAPIKeyFirst(table, apiKey) ==
    LET hits == {i \in 1..Len(table) : table[i].api_key = apiKey}
    IN  IF hits = {} THEN 0 ELSE Min(hits)

\* GetAuthByAPIKey: the row's position, 0 for the nil it returns without
\* a row
GetAuthByAPIKey(table, apiKey) == WhereAPIKeyFirst(table, apiKey)

\* db.Create(&auth) under the uniqueIndex of api_key
Create(table, row) ==
    IF \E i \in 1..Len(table) : table[i].api_key = row.api_key
    THEN [err |-> "err", table |-> table]
    ELSE [err |-> "nil", table |-> Append(table, row)]

\* StoreRequestToken(db, apiKey, requestToken): create the row of the api
\* key, or save it with the new request token
StoreRequestTokenByKey(table, apiKey, requestToken) ==
    LET i == WhereAPIKeyFirst(table, apiKey)
    IN  IF i = 0
        THEN Create(table, [api_key |-> apiKey, request_token |-> requestToken,
                            access_token |-> EmptyToken])
        ELSE [err |-> "nil",
              table |-> [table EXCEPT ![i].request_token = requestToken]]

\* UpdateAccessToken(db, apiKey, accessToken): gorm.ErrRecordNotFound
\* without a row, else the access_token column of the row found
UpdateAccessTokenByKey(table, apiKey, accessToken) ==
    LET i == GetAuthByAPIKey(table, apiKey)
    IN  IF i = 0
        THEN [err |-> "err", table |-> table]
        ELSE [err |-> "nil",
              table |-> [table EXCEPT ![i].access_token = accessToken]]

\* the request token of the row of apiKey, EmptyToken without a row
RequestTokenByKey(table, apiKey) ==
    LET i == GetAuthByAPIKey(table, apiKey)
    IN  IF i = 0 THEN EmptyToken ELSE table[i].request_token

\* the cached access token of apiKey, EmptyToken without a row
AccessTokenByKey(table, apiKey) ==
    LET i == GetAuthByAPIKey(table, apiKey)
    IN  IF i = 0 THEN EmptyToken ELSE table[i].access_token

\* LoginAndStoreTokenForAPIKey(db, apiKey): an error without the secrets;
\* else DoAutoLogin ends in a request token (or EmptyToken: it fails),
\* which is stored under the call's api key, the outcome of the write
\* being dropped
LoginAndStoreTokenForAPIKey(table, apiKey, secrets, requestToken, store) ==
    IF ~secrets THEN [err |-> "err", table |-> table]
    ELSE IF requestToken = EmptyToken \/ store = "err"
    THEN [err |-> "nil", table |-> table]
    ELSE [err |-> "nil",
          table |-> StoreRequestTokenByKey(table, apiKey, requestToken).table]

\* the table, and the one GetValidAccessToken(db, apiKey) call followed
\* step by step: pc, its api key, the attempt of the retry loop, the
\* request token it holds, the access token exchanged, the state of the
\* configuration, and alone: what the same steps make of a table that
\* holds the rows of the call's api key only
InitKiteAuth ==
    [table |-> <<>>,
     call |-> [pc |-> "idle", apiKey |-> "none", attempt |-> 0,
               requestToken |-> EmptyToken, accessToken |-> EmptyToken,
               secrets |-> TRUE, alone |-> <<>>]]

Init ==
    /\ now = FirstTime
    /\ ledger = <<>>
    /\ runs = EmptyBag
    /\ launched = 0
    /\ sched = InitSched
    /\ lastSucc = [n \in TaskNames |-> ZeroTime]
    /\ kite = InitKite
    /\ ledgerCalls = InitStore
    /\ autoLogin = InitAutoLogin
    /\ nextRuns = <<>>
    /\ kiteAuth = InitKiteAuth
    /\ taskExecutions = <<>>

\* a variant of Initialize without the test of started
InitializeUnguarded ==
    /\ sched.stopping = "no"
    /\ sched' = [started |-> TRUE, cron |-> "new",
                 entryToTask |-> registerTasks(<<>>, 1),
                 next |-> [n \in TaskNames |-> ZeroTime], ctxDone |-> FALSE,
                 stopping |-> "no", skipped |-> sched.skipped,
                 again |-> sched.started]
    /\ UNCHANGED <<taskExecutions, kiteAuth, nextRuns, autoLogin, ledgerCalls, kite, now, ledger, runs, launched, lastSucc>>

\* Scheduler.Initialize(db): returns at once when started, else a new
\* context, a new engine, a new lookup and registerTasks
Initialize ==
    /\ sched.stopping = "no"
    /\ sched' = IF sched.started
                THEN [sched EXCEPT !.again = TRUE]
                ELSE [started |-> TRUE, cron |-> "new",
                      entryToTask |-> registerTasks(<<>>, 1),
                      next |-> [n \in TaskNames |-> ZeroTime], ctxDone |-> FALSE,
                      stopping |-> "no", skipped |-> sched.skipped,
                      again |-> FALSE]
    /\ UNCHANGED <<taskExecutions, kiteAuth, nextRuns, autoLogin, ledgerCalls, kite, now, ledger, runs, launched, lastSucc>>

\* the tasks runStartupTasks launches, read[task] being the outcome of the
\* ledger read of ShouldRunToday for that task
StartupTasks(read) ==
    {n \in TaskNames : /\ ShouldRunOnStartup(n)
                       /\ ShouldRunToday(ledger, n, now, read[n]).run}

\* the tasks runStartupTasks finds already run today
SkippedTasks(read) ==
    {n \in TaskNames : /\ ShouldRunOnStartup(n)
                       /\ ~ShouldRunToday(ledger, n, now, read[n]).err
                       /\ ~ShouldRunToday(ledger, n, now, read[n]).run}

\* the loop of runStartupTasks over the roster, from position i
RECURSIVE RunStartupTasks(_, _, _)
RunStartupTasks(rs, i, read) ==
    IF i > Len(Tasks) THEN rs
    ELSE IF Tasks[i] \in StartupTasks(read)
         THEN RunStartupTasks(Launch(rs, "startup", Tasks[i]), i + 1, read)
         ELSE RunStartupTasks(rs, i + 1, read)

\* Scheduler.Start(): cron.Start() gives every entry its Next, then
\* runStartupTasks
Start(read) ==
    /\ sched.stopping = "no"
    /\ sched.started
    /\ launched + Cardinality(StartupTasks(read)) <= MaxRuns
    /\ launched' = launched + Cardinality(StartupTasks(read))
    /\ sched' = [sched EXCEPT
                   !.cron = "running",
                   !.skipped = SkippedTasks(read),
                   !.next = IF sched.cron = "running" THEN sched.next
                            ELSE [n \in TaskNames |->
                                    IF n \in Registered(sched)
                                    THEN NextAfter(n, now) ELSE ZeroTime]]
    /\ runs' = RunStartupTasks(runs, 1, read)
    /\ UNCHANGED <<taskExecutions, kiteAuth, nextRuns, autoLogin, ledgerCalls, kite, now, ledger, lastSucc>>

\* a variant of the beginning of Stop() without the test of started
StopBeginUnguarded ==
    /\ sched.stopping = "no"
    /\ sched' = [sched EXCEPT !.cron = "stopped", !.stopping = "drain"]
    /\ UNCHANGED <<taskExecutions, kiteAuth, nextRuns, autoLogin, ledgerCalls, kite, now, ledger, runs, launched, lastSucc>>

\* Scheduler.Stop(): it returns at once when not started, else it goes up
\* to <-ctx.Done(): the engine issues no new fire
StopBegin ==
    /\ sched.stopping = "no"
    /\ sched' = IF ~sched.started
                THEN [sched EXCEPT !.again = TRUE]
                ELSE [sched EXCEPT !.cron = "stopped", !.stopping = "drain"]
    /\ UNCHANGED <<taskExecutions, kiteAuth, nextRuns, autoLogin, ledgerCalls, kite, now, ledger, runs, launched, lastSucc>>

\* Scheduler.Stop(): the cron jobs have drained, s.cancel()
StopCancel ==
    /\ sched.stopping = "drain"
    /\ InFlight(runs, {"cron"}) = {}
    /\ sched' = [sched EXCEPT !.ctxDone = TRUE, !.stopping = "wait"]
    /\ UNCHANGED <<taskExecutions, kiteAuth, nextRuns, autoLogin, ledgerCalls, kite, now, ledger, runs, launched, lastSucc>>

\* a variant of the end of Stop() that does not wait for the executions
StopEndUnjoined ==
    /\ sched.stopping = "wait"
    /\ sched' = [sched EXCEPT !.started = FALSE, !.stopping = "no",
                              !.again = FALSE]
    /\ UNCHANGED <<taskExecutions, kiteAuth, nextRuns, autoLogin, ledgerCalls, kite, now, ledger, runs, launched, lastSucc>>

\* Scheduler.Stop(): s.wg.Wait() has returned, started = false
StopEnd ==
    /\ sched.stopping = "wait"
    /\ InFlight(runs, {"cron", "startup"}) = {}
    /\ sched' = [sched EXCEPT !.started = FALSE, !.stopping = "no",
                              !.again = FALSE]
    /\ UNCHANGED <<taskExecutions, kiteAuth, nextRuns, autoLogin, ledgerCalls, kite, now, ledger, runs, launched, lastSucc>>

\* a variant of the engine that fires an entry only when ShouldRunToday
\* allows its task
DueUnlessRanToday(sc, t) ==
    {n \in Registered(sc) : /\ sc.cron = "running" /\ sc.next[n] = t
                            /\ ShouldRunToday(ledger, n, t, "ok").run}

\* the entries of the running engine that are due at instant t
Due(sc, t) == {n \in Registered(sc) : sc.cron = "running" /\ sc.next[n] = t}

RECURSIVE FireDue(_, _, _)
FireDue(rs, i, due) ==
    IF i > Len(Tasks) THEN rs
    ELSE IF Tasks[i] \in due
         THEN FireDue(Launch(rs, "cron", Tasks[i]), i + 1, due)
         ELSE FireDue(rs, i + 1, due)

\* time passes to the next interval; the engine fires the entries that
\* become due there (the func registered by registerTask) and moves their
\* Next on
Tick ==
    /\ now < MaxTime
    /\ launched + Cardinality(Due(sched, now + 1)) <= MaxRuns
    /\ launched' = launched + Cardinality(Due(sched, now + 1))
    /\ now' = now + 1
    /\ runs' = FireDue(runs, 1, Due(sched, now + 1))
    /\ sched' = [sched EXCEPT
                   !.next = [n \in TaskNames |->
                               IF n \in Due(sched, now + 1)
                               THEN NextAfter(n, now + 1) ELSE sched.next[n]]]
    /\ UNCHANGED <<taskExecutions, kiteAuth, nextRuns, autoLogin, ledgerCalls, kite, ledger, lastSucc>>

\* RunKiteTradesTask / RunPriceUpdateTask of the server
ManualTrigger(task) ==
    /\ launched < MaxRuns
    /\ launched' = launched + 1
    /\ runs' = Launch(runs, "manual", task)
    /\ UNCHANGED <<taskExecutions, kiteAuth, nextRuns, autoLogin, ledgerCalls, kite, now, ledger, sched, lastSucc>>

\* the process ends (exit or crash) and a new one starts: only the
\* database survives
Restart ==
    /\ runs' = EmptyBag
    /\ sched' = InitSched
    /\ UNCHANGED <<taskExecutions, kiteAuth, nextRuns, autoLogin, ledgerCalls, kite, now, ledger, launched, lastSucc>>

\* ------------------------------------------------- the steps of one run
\* the iterations of retryOnLockedDatabase a step of a ledger call covers:
\* iteration 0 when the call begins, and later the iterations 1..i, of
\* which all but the last ended busy
Iterations(run) == IF run.t = ZeroTime THEN {0} ELSE 1..(maxRetries - 1)

\* UpdateLastRun(s.db, task.Name()): now := time.Now() and the first
\* attempt of the transaction, or the attempts after a busy one
UpdateLastRun(run, i, outcome) ==
    LET t    == IF i = 0 THEN now ELSE run.t
        h    == IF i = 0 THEN Append(run.hist, "ulr_call") ELSE run.hist
        res  == RetryOnLockedDatabase(i, outcome)
    IN  /\ run.pc = "ulr"
        /\ i \in Iterations(run)
        /\ IF res = "continue"
           THEN /\ i = 0
                /\ runs' = Step(runs, run, [run EXCEPT !.t = t, !.hist = h])
                /\ UNCHANGED ledger
           ELSE /\ runs' = Step(runs, run,
                                [run EXCEPT !.t = ZeroTime, !.ulr = ErrOf(res),
                                            !.pc = "body",
                                            !.hist = h \o <<"ulr_ret", "run_start">>])
                /\ ledger' = IF res = "nil"
                             THEN UpdateLastRunTx(ledger, run.task, t)
                             ELSE ledger
        /\ UNCHANGED <<taskExecutions, kiteAuth, nextRuns, autoLogin, ledgerCalls, kite, now, launched, sched, lastSucc>>

\* a variant of the execution that goes on to UpdateLastSuccessfulRun
\* whatever the body returned
TaskRunIgnoringErr(run, err) ==
    /\ run.pc = "body"
    /\ runs' = Step(runs, run,
                    [run EXCEPT !.body = err, !.ulr = "none", !.pc = "ulsr",
                                !.hist = Append(run.hist, "run_ret")])
    /\ UNCHANGED <<taskExecutions, kiteAuth, nextRuns, autoLogin, ledgerCalls, kite, now, ledger, launched, sched, lastSucc>>

\* a variant of the execution whose error takes the other executions
\* and the engine down with it
TaskRunAborting(run, err) ==
    /\ run.pc = "body"
    /\ runs' = IF err = "nil"
               THEN Step(runs, run,
                         [run EXCEPT !.body = err, !.ulr = "none", !.pc = "ulsr",
                                     !.hist = Append(run.hist, "run_ret")])
               ELSE EmptyBag
    /\ sched' = IF err = "nil" THEN sched ELSE [sched EXCEPT !.cron = "stopped"]
    /\ UNCHANGED <<taskExecutions, kiteAuth, nextRuns, autoLogin, ledgerCalls, kite, now, ledger, launched, lastSucc>>

\* task.Run(ctx, db) returns err: on to UpdateLastSuccessfulRun, or the
\* error is logged and the execution returns
TaskRun(run, err) ==
    /\ run.pc = "body"
    /\ runs' = IF err = "nil"
               THEN Step(runs, run,
                         [run EXCEPT !.body = err, !.ulr = "none", !.pc = "ulsr",
                                     !.hist = Append(run.hist, "run_ret")])
               ELSE runs (-) SetToBag({run})
    /\ UNCHANGED <<taskExecutions, kiteAuth, nextRuns, autoLogin, ledgerCalls, kite, now, ledger, launched, sched, lastSucc>>

\* UpdateLastSuccessfulRun(s.db, task.Name()), in the same steps; its
\* error is logged and the execution returns (defer s.wg.Done() on the
\* scheduler's paths)
UpdateLastSuccessfulRun(run, i, outcome) ==
    LET t    == IF i = 0 THEN now ELSE run.t
        h    == IF i = 0 THEN Append(run.hist, "ulsr_call") ELSE run.hist
        res  == RetryOnLockedDatabase(i, outcome)
    IN  /\ run.pc = "ulsr"
        /\ i \in Iterations(run)
        /\ IF res = "continue"
           THEN /\ i = 0
                /\ runs' = Step(runs, run, [run EXCEPT !.t = t, !.hist = h])
                /\ UNCHANGED <<ledger, lastSucc>>
           ELSE /\ runs' = runs (-) SetToBag({run})
                /\ ledger' = IF res = "nil"
                             THEN UpdateLastSuccessfulRunTx(ledger, run.task, t)
                             ELSE ledger
                /\ lastSucc' = IF res = "nil"
                               THEN [lastSucc EXCEPT ![run.task] = t]
                               ELSE lastSucc
        /\ UNCHANGED <<taskExecutions, kiteAuth, nextRuns, autoLogin, ledgerCalls, kite, now, launched, sched>>

\* the scheduler and the manual triggers over a store that may fail but
\* is not contended
Next ==
    \/ Initialize
    \/ \E read \in [{n \in TaskNames : ShouldRunOnStartup(n)} -> {"ok", "err"}] :
          Start([n \in TaskNames |-> IF ShouldRunOnStartup(n) THEN read[n] ELSE "ok"])
    \/ StopBegin
    \/ StopCancel
    \/ StopEnd
    \/ Tick
    \/ \E task \in TaskNames : ManualTrigger(task)
    \/ Restart
    \/ \E run \in Running, outcome \in {"ok", "fail"} : UpdateLastRun(run, 0, outcome)
    \/ \E run \in Running, err \in {"nil", "err"} : TaskRun(run, err)
    \/ \E run \in Running, outcome \in {"ok", "fail"} :
          UpdateLastSuccessfulRun(run, 0, outcome)

Spec == Init /\ [][Next]_vars

\* concurrent executions over a contended store: every outcome of every
\* attempt, the scheduler left aside
NextLedger ==
    \/ Tick
    \/ \E task \in TaskNames : ManualTrigger(task)
    \/ Restart
    \/ \E run \in Running, i \in 0..(maxRetries - 1), outcome \in Outcomes :
          UpdateLastRun(run, i, outcome)
    \/ \E run \in Running, err \in {"nil", "err"} : TaskRun(run, err)
    \/ \E run \in Running, i \in 0..(maxRetries - 1), outcome \in Outcomes :
          UpdateLastSuccessfulRun(run, i, outcome)

SpecLedger == Init /\ [][NextLedger]_vars

\* ------------------------- the ledger calls, statement by statement
\* UpdateLastRun(db, name) or UpdateLastSuccessfulRun(db, name) is called,
\* dt intervals after the clock was last read: now := time.Now() and the
\* loop's variables
LedgerCall(c, op, name, dt) ==
    /\ ledgerCalls.proc[c].pc \in {"idle", "returned"}
    /\ launched < MaxRuns
    /\ now + dt <= MaxTime
    /\ launched' = launched + 1
    /\ now' = now + dt
    /\ ledgerCalls' = [ledgerCalls EXCEPT !.proc[c] =
                    [IdleCall EXCEPT !.pc = "first", !.op = op, !.name = name,
                                     !.t = now + dt]]
    /\ UNCHANGED <<taskExecutions, kiteAuth, nextRuns, autoLogin, kite, ledger, runs, sched, lastSucc>>

\* operation() up to tx.Where(...).First(&execution): the read succeeds
\* (a row or gorm.ErrRecordNotFound) or the attempt ends in its error
TxFirst(c, outcome) ==
    LET p == ledgerCalls.proc[c]
    IN  /\ p.pc = "first"
        /\ ledgerCalls' = [ledgerCalls EXCEPT !.proc[c] =
                        IF outcome = "ok"
                        THEN [p EXCEPT !.pc = "write", !.snap = ledger]
                        ELSE AfterAttempt(p, outcome)]
        /\ UNCHANGED <<taskExecutions, kiteAuth, nextRuns, autoLogin, kite, now, ledger, runs, launched, sched, lastSucc>>

\* tx.Create or tx.Save and the commit, then the rest of the iteration
TxWrite(c, outcome) ==
    LET p   == ledgerCalls.proc[c]
        out == IF Conflict(p.snap, ledger) THEN "busy" ELSE outcome
    IN  /\ p.pc = "write"
        /\ ledger' = IF out = "ok"
                     THEN WriteTx(ledger, p.snap, p.op, p.name, p.t)
                     ELSE ledger
        /\ lastSucc' = IF out = "ok" /\ p.op = "ulsr"
                       THEN [lastSucc EXCEPT ![p.name] = p.t]
                       ELSE lastSucc
        /\ ledgerCalls' = [ledgerCalls EXCEPT
                        !.proc[c] = AfterAttempt(p, out),
                        !.serial = IF out = "ok"
                                   THEN TxOf(p.op, @, p.name, p.t) ELSE @]
        /\ UNCHANGED <<taskExecutions, kiteAuth, nextRuns, autoLogin, kite, now, runs, launched, sched>>

\* two callers of the ledger over a contended store
NextStore ==
    \/ \E c \in Callers, op \in {"ulr", "ulsr"}, name \in TaskNames, dt \in {0, 1} :
          LedgerCall(c, op, name, dt)
    \/ \E c \in Callers, outcome \in Outcomes : TxFirst(c, outcome)
    \/ \E c \in Callers, outcome \in Outcomes : TxWrite(c, outcome)

SpecStore == Init /\ [][NextStore]_vars

\* ------------------------------------------- the steps of the token call
\* a return that hands the cached token back along with an error
ReturnKeepingCached(k, token, err) ==
    [k EXCEPT !.pc = "returned",
              !.ret = [token |-> IF err = "nil" THEN token ELSE k.cached,
                       err |-> err]]

\* return token, err
Return(k, token, err) ==
    [k EXCEPT !.pc = "returned", !.ret = [token |-> token, err |-> err]]

\* GetValidAccessToken past the probe: login first when the row read on
\* entry has no request token, else straight to the exchange
AfterProbe(k) ==
    IF k.requestToken = EmptyToken
    THEN [k EXCEPT !.pc = "login0"]
    ELSE [k EXCEPT !.pc = "exchange", !.attempt = 0]

\* GetValidAccessToken(db, apiKey) up to the profile request; read is the
\* outcome of GetAuthByAPIKey, secrets the state of the configuration
GetValidAccessToken(read, secrets) ==
    LET k == [kite EXCEPT !.calls = @ + 1, !.secrets = secrets,
                          !.cached = AccessTokenOf(kite.auth),
                          !.requestToken = RequestTokenOf(kite.auth),
                          !.attempt = 0, !.accessToken = EmptyToken,
                          !.ret = [token |-> EmptyToken, err |-> "none"],
                          !.probe = "none", !.logins = 0, !.exchanges = 0,
                          !.writes = 0, !.auth0 = kite.auth]
    IN  /\ kite.pc \in {"idle", "returned"}
        /\ kite.calls < MaxCalls
        /\ kite' = IF read = "err" THEN Return(k, EmptyToken, "err")
                   ELSE IF k.cached # EmptyToken THEN [k EXCEPT !.pc = "probe"]
                   ELSE AfterProbe(k)
        /\ UNCHANGED schedVars

\* the profile request has ended in outcome
Probe(outcome) ==
    /\ kite.pc = "probe"
    /\ kite' = IF ~checkIfAccessTokenIsExpired(outcome)
               THEN Return([kite EXCEPT !.probe = outcome], kite.cached, "nil")
               ELSE AfterProbe([kite EXCEPT !.probe = outcome])
    /\ UNCHANGED schedVars

\* LoginAndStoreToken: "config" (secrets missing), or DoAutoLogin ends in
\* "token" or "failed"; store is the outcome of StoreRequestToken, which
\* the caller does not look at
LoginOutcomes == {"config", "token", "failed"}
LoginAndStoreToken(k, outcome, store) ==
    IF outcome = "config" THEN [err |-> "err", k |-> k]
    ELSE IF outcome = "token"
    THEN [err |-> "nil",
          k |-> [k EXCEPT !.logins = @ + 1, !.minted = @ + 1,
                          !.auth = IF store = "ok"
                                   THEN StoreRequestToken(@, k.minted + 1) ELSE @,
                          !.writes = IF store = "ok" THEN @ + 1 ELSE @]]
    ELSE [err |-> "nil", k |-> [k EXCEPT !.logins = @ + 1]]

\* the login of a call that found no request token, and the read after it
LoginFirst(outcome, store, read) ==
    LET r == LoginAndStoreToken(kite, outcome, store)
    IN  /\ kite.pc = "login0"
        /\ outcome = "config" <=> ~kite.secrets
        /\ kite' = IF r.err # "nil" \/ read = "err"
                      \/ RequestTokenOf(r.k.auth) = EmptyToken
                   THEN Return(r.k, EmptyToken, "err")
                   ELSE [r.k EXCEPT !.pc = "exchange", !.attempt = 0,
                                    !.requestToken = RequestTokenOf(r.k.auth)]
        /\ UNCHANGED schedVars

\* one FetchAccessTokenFromRequestToken of the retry loop: without the
\* secrets it fails before any request, else the session request carries
\* requestToken and the provider accepts it or not
Exchange(outcome) ==
    LET k == [kite EXCEPT !.exchanges = @ + 1,
                          !.submitted = IF kite.secrets
                                        THEN Append(@, [call |-> kite.calls,
                                                        token |-> kite.requestToken,
                                                        ok |-> outcome = "ok"])
                                        ELSE @]
    IN  /\ kite.pc = "exchange"
        /\ ~kite.secrets => outcome = "err"
        /\ kite' = IF outcome = "ok"
                   THEN [k EXCEPT !.pc = "store", !.minted = @ + 1,
                                  !.accessToken = k.minted + 1]
                   ELSE IF LastAttempt(k.attempt)
                   THEN Return(k, EmptyToken, "err")
                   ELSE [k EXCEPT !.pc = "login"]
        /\ UNCHANGED schedVars

\* the new login flow of the retry loop, up to the next attempt
LoginAgain(outcome, store, read) ==
    LET r == LoginAndStoreToken(kite, outcome, store)
    IN  /\ kite.pc = "login"
        /\ outcome = "config" <=> ~kite.secrets
        /\ kite' = IF r.err # "nil" \/ read = "err"
                      \/ RequestTokenOf(r.k.auth) = EmptyToken
                   THEN Return(r.k, EmptyToken, "err")
                   ELSE [r.k EXCEPT !.pc = "exchange", !.attempt = @ + 1,
                                    !.requestToken = RequestTokenOf(r.k.auth)]
        /\ UNCHANGED schedVars

\* model.UpdateAccessToken(db, apiKey, accessToken) and the return
StoreAccessToken(outcome) ==
    LET u == UpdateAccessToken(kite.auth, kite.accessToken)
    IN  /\ kite.pc = "store"
        /\ kite' = IF outcome = "ok" /\ u.err = "nil"
                   THEN Return([kite EXCEPT !.auth = u.auth, !.writes = @ + 1],
                               kite.accessToken, "nil")
                   ELSE Return(kite, EmptyToken, "err")
        /\ UNCHANGED schedVars

NextToken ==
    \/ \E read \in {"ok", "err"}, secrets \in BOOLEAN : GetValidAccessToken(read, secrets)
    \/ \E outcome \in ProbeOutcomes : Probe(outcome)
    \/ \E outcome \in LoginOutcomes, store \in {"ok", "err"}, read \in {"ok", "err"} :
          LoginFirst(outcome, store, read)
    \/ \E outcome \in {"ok", "err"} : Exchange(outcome)
    \/ \E outcome \in LoginOutcomes, store \in {"ok", "err"}, read \in {"ok", "err"} :
          LoginAgain(outcome, store, read)
    \/ \E outcome \in {"ok", "err"} : StoreAccessToken(outcome)

SpecToken == Init /\ [][NextToken]_vars

\* ------------------------------------- the calls on task_executions
\* the clock moves on
Clock ==
    /\ now < MaxTime
    /\ now' = now + 1
    /\ UNCHANGED <<taskExecutions, kiteAuth, nextRuns, autoLogin, ledgerCalls, kite,
                   ledger, runs, launched, sched, lastSucc>>

\* a call of UpdateLastRun(db, taskName) that commits
UpdateLastRunCall(name) ==
    /\ taskExecutions' = UpdateLastRunRow(taskExecutions, name, now)
    /\ UNCHANGED <<kiteAuth, nextRuns, autoLogin, ledgerCalls, kite, now, ledger,
                   runs, launched, sched, lastSucc>>

\* a call of UpdateLastSuccessfulRun(db, taskName) that commits
UpdateLastSuccessfulRunCall(name) ==
    /\ taskExecutions' = UpdateLastSuccessfulRunRow(taskExecutions, name, now)
    /\ UNCHANGED <<kiteAuth, nextRuns, autoLogin, ledgerCalls, kite, now, ledger,
                   runs, launched, sched, lastSucc>>

NextRows ==
    \/ Clock
    \/ \E name \in TaskNames : UpdateLastRunCall(name)
    \/ \E name \in TaskNames : UpdateLastSuccessfulRunCall(name)

SpecRows == Init /\ [][NextRows]_vars

\* ------------------------------------------- the calls on kite_auth
\* the table changes to table, and the table of the call's own rows by
\* the same operation when it is on the call's api key
OnTable(table, alone) ==
    [kiteAuth EXCEPT !.table = table, !.call.alone = alone]

\* StoreRequestToken(db, apiKey, requestToken) by another caller
StoreRequestTokenCall(apiKey, requestToken) ==
    /\ kiteAuth' = OnTable(StoreRequestTokenByKey(kiteAuth.table, apiKey,
                                                  requestToken).table,
                           IF apiKey = kiteAuth.call.apiKey
                           THEN StoreRequestTokenByKey(kiteAuth.call.alone, apiKey,
                                                       requestToken).table
                           ELSE kiteAuth.call.alone)
    /\ UNCHANGED <<taskExecutions, now, ledger, runs, launched, sched, lastSucc, kite, ledgerCalls,
                   autoLogin, nextRuns>>

\* UpdateAccessToken(db, apiKey, accessToken) by another caller
UpdateAccessTokenCall(apiKey, accessToken) ==
    /\ kiteAuth' = OnTable(UpdateAccessTokenByKey(kiteAuth.table, apiKey,
                                                  accessToken).table,
                           IF apiKey = kiteAuth.call.apiKey
                           THEN UpdateAccessTokenByKey(kiteAuth.call.alone, apiKey,
                                                       accessToken).table
                           ELSE kiteAuth.call.alone)
    /\ UNCHANGED <<taskExecutions, now, ledger, runs, launched, sched, lastSucc, kite, ledgerCalls,
                   autoLogin, nextRuns>>

\* the call goes on to pc
CallAt(c, pc) == [c EXCEPT !.pc = pc]

\* GetValidAccessToken(db, apiKey) up to the login or the first exchange:
\* read is the outcome of GetAuthByAPIKey, valid what the probe of a
\* cached access token finds
GetValidAccessTokenByKey(apiKey, read, secrets, valid) ==
    LET c == [pc |-> "idle", apiKey |-> apiKey, attempt |-> 0,
              requestToken |-> RequestTokenByKey(kiteAuth.table, apiKey),
              accessToken |-> EmptyToken, secrets |-> secrets,
              alone |-> SelectSeq(kiteAuth.table,
                                  LAMBDA row : row.api_key = apiKey)]
    IN  /\ kiteAuth.call.pc \in {"idle", "returned"}
        /\ kiteAuth' =
              [kiteAuth EXCEPT !.call =
                  IF read = "err" THEN CallAt(c, "returned")
                  ELSE IF AccessTokenByKey(kiteAuth.table, apiKey) # EmptyToken
                          /\ valid
                  THEN CallAt(c, "returned")
                  ELSE IF c.requestToken = EmptyToken THEN CallAt(c, "login0")
                  ELSE CallAt(c, "exchange")]
        /\ UNCHANGED <<taskExecutions, now, ledger, runs, launched, sched, lastSucc, kite,
                       ledgerCalls, autoLogin, nextRuns>>

\* a login cycle of the call (the one of GetValidAccessToken at login0,
\* those of the retry loop at login) and the read of the row after it
LoginByKey(requestToken, store, read) ==
    LET c     == kiteAuth.call
        login == LoginAndStoreTokenForAPIKey(kiteAuth.table, c.apiKey, c.secrets,
                                             requestToken, store)
        alone == LoginAndStoreTokenForAPIKey(c.alone, c.apiKey, c.secrets,
                                             requestToken, store).table
        next  == [c EXCEPT !.alone = alone,
                           !.requestToken = RequestTokenByKey(login.table, c.apiKey),
                           !.attempt = IF c.pc = "login" THEN @ + 1 ELSE @]
    IN  /\ c.pc \in {"login0", "login"}
        /\ kiteAuth' =
              [table |-> login.table,
               call |-> IF login.err # "nil" \/ read = "err"
                           \/ next.requestToken = EmptyToken
                        THEN CallAt([c EXCEPT !.alone = alone], "returned")
                        ELSE CallAt(next, "exchange")]
        /\ UNCHANGED <<taskExecutions, now, ledger, runs, launched, sched, lastSucc, kite,
                       ledgerCalls, autoLogin, nextRuns>>

\* one FetchAccessTokenFromRequestToken of the retry loop
ExchangeByKey(outcome, accessToken) ==
    LET c == kiteAuth.call
    IN  /\ c.pc = "exchange"
        /\ ~c.secrets => outcome = "err"
        /\ kiteAuth' =
              [kiteAuth EXCEPT !.call =
                  IF outcome = "ok"
                  THEN CallAt([c EXCEPT !.accessToken = accessToken], "store")
                  ELSE IF LastAttempt(c.attempt) THEN CallAt(c, "returned")
                  ELSE CallAt(c, "login")]
        /\ UNCHANGED <<taskExecutions, now, ledger, runs, launched, sched, lastSucc, kite,
                       ledgerCalls, autoLogin, nextRuns>>

\* model.UpdateAccessToken(db, apiKey, accessToken) and the return
StoreAccessTokenByKey(store) ==
    LET c == kiteAuth.call
    IN  /\ c.pc = "store"
        /\ kiteAuth' =
              IF store = "ok"
              THEN [table |-> UpdateAccessTokenByKey(kiteAuth.table, c.apiKey,
                                                     c.accessToken).table,
                    call |-> CallAt([c EXCEPT !.alone =
                                        UpdateAccessTokenByKey(c.alone, c.apiKey,
                                                               c.accessToken).table],
                                    "returned")]
              ELSE [kiteAuth EXCEPT !.call = CallAt(c, "returned")]
        /\ UNCHANGED <<taskExecutions, now, ledger, runs, launched, sched, lastSucc, kite,
                       ledgerCalls, autoLogin, nextRuns>>

\* the step is one of the GetValidAccessToken call
CallStep ==
    \/ \E apiKey \in ApiKeys, read \in {"ok", "err"}, secrets \in BOOLEAN,
          valid \in BOOLEAN : GetValidAccessTokenByKey(apiKey, read, secrets, valid)
    \/ \E requestToken \in {EmptyToken} \cup KiteTokens, store \in {"ok", "err"},
          read \in {"ok", "err"} : LoginByKey(requestToken, store, read)
    \/ \E outcome \in {"ok", "err"}, accessToken \in KiteTokens :
          ExchangeByKey(outcome, accessToken)
    \/ \E store \in {"ok", "err"} : StoreAccessTokenByKey(store)

NextAuth ==
    \/ \E apiKey \in ApiKeys, requestToken \in KiteTokens :
          StoreRequestTokenCall(apiKey, requestToken)
    \/ \E apiKey \in ApiKeys, accessToken \in KiteTokens :
          UpdateAccessTokenCall(apiKey, accessToken)
    \/ CallStep

SpecAuth == Init /\ [][NextAuth]_vars

\* ------------------------------------------------ the dashboard's read
\* Scheduler.GetNextRunTimes(): it takes no lock, so it runs whatever
\* another operation is doing
GetNextRunTimesCall ==
    /\ nextRuns' = <<[started |-> sched.started,
                      nextRuns |-> GetNextRunTimes(sched)]>>
    /\ UNCHANGED <<taskExecutions, kiteAuth, autoLogin, kite, now, ledger, runs, launched, sched, lastSucc,
                   ledgerCalls>>

\* the scheduler, its executions and the reads of the dashboard
NextRead ==
    \/ Initialize
    \/ \E read \in [{n \in TaskNames : ShouldRunOnStartup(n)} -> {"ok", "err"}] :
          Start([n \in TaskNames |-> IF ShouldRunOnStartup(n) THEN read[n] ELSE "ok"])
    \/ StopBegin
    \/ StopCancel
    \/ StopEnd
    \/ Tick
    \/ \E run \in Running, outcome \in {"ok", "fail"} : UpdateLastRun(run, 0, outcome)
    \/ \E run \in Running, err \in {"nil", "err"} : TaskRun(run, err)
    \/ \E run \in Running, outcome \in {"ok", "fail"} :
          UpdateLastSuccessfulRun(run, 0, outcome)
    \/ GetNextRunTimesCall

SpecRead == Init /\ [][NextRead]_vars

\* --------------------------------------------- the steps of DoAutoLogin
\* DoAutoLogin(kiteConfig) is called: a new client without a cookie jar
DoAutoLogin ==
    /\ autoLogin.pc \in {"idle", "returned"}
    /\ autoLogin' = [InitAutoLogin EXCEPT !.pc = "step1"]
    /\ UNCHANGED <<kite, schedVarsButLogin>>

\* Step 1: GET the login URL; the session id is cut from the Location
Step1(r) ==
    LET l == Do(autoLogin, 1, {}, r)
    IN  /\ autoLogin.pc = "step1"
        /\ autoLogin' =
              IF r.kind # "response" THEN ReturnError(l)
              ELSE IF r.location = NoLocation THEN ReturnError(l)
              ELSE IF FindStringSubmatch("sess_id", r.location) = <<>>
              THEN ReturnError(l)
              ELSE [l EXCEPT !.pc = "step2", !.location = r.location,
                             !.sessID = FindStringSubmatch("sess_id", r.location)]
        /\ UNCHANGED <<kite, schedVarsButLogin>>

\* Step 2: POST the credentials with the cookies of the step-1 response
Step2(r) ==
    LET l == Do(autoLogin, 2, Cookies(autoLogin.resps[1]), r)
    IN  /\ autoLogin.pc = "step2"
        /\ autoLogin' =
              IF r.kind # "response" THEN ReturnError(l)
              ELSE IF r.status \in {"unreadable", "unparsable"} THEN ReturnError(l)
              ELSE IF ~StatusSuccess(r) THEN ReturnError(l)
              ELSE [l EXCEPT !.pc = "step3"]
        /\ UNCHANGED <<kite, schedVarsButLogin>>

\* Step 3: generateTOTP, then POST the second factor with the cookies of
\* the step-2 response
Step3(r) ==
    LET l == Do(autoLogin, 3, Cookies(autoLogin.resps[2]), r)
    IN  /\ autoLogin.pc = "step3"
        /\ autoLogin' =
              IF r.kind # "response" THEN ReturnError(l)
              ELSE IF r.status \in {"unreadable", "unparsable"} THEN ReturnError(l)
              ELSE IF ~StatusSuccess(r) THEN ReturnError(l)
              ELSE [l EXCEPT !.pc = "step4"]
        /\ UNCHANGED <<kite, schedVarsButLogin>>

\* Step 4: GET the login URL of the session with the cookies of the
\* step-3 response; location is overwritten with the Location answered
Step4(r) ==
    LET l == Do(autoLogin, 4, Cookies(autoLogin.resps[3]), r)
    IN  /\ autoLogin.pc = "step4"
        /\ autoLogin' =
              IF r.kind # "response" THEN ReturnError(l)
              ELSE IF r.location = NoLocation
              THEN ReturnError([l EXCEPT !.location = NoLocation])
              ELSE [l EXCEPT !.pc = "step5", !.location = r.location]
        /\ UNCHANGED <<kite, schedVarsButLogin>>

\* Step 5: GET location, again with the cookies of the step-3 response;
\* the request token is cut from the Location answered
Step5(r) ==
    LET l == Do(autoLogin, 5, Cookies(autoLogin.resps[3]), r)
    IN  /\ autoLogin.pc = "step5"
        /\ autoLogin' =
              IF r.kind # "response" THEN ReturnError(l)
              ELSE IF r.location = NoLocation THEN ReturnError(l)
              ELSE IF FindStringSubmatch("request_token", r.location) = <<>>
              THEN ReturnError(l)
              ELSE [l EXCEPT !.pc = "returned",
                             !.ret = [token |-> FindStringSubmatch("request_token",
                                                                   r.location),
                                      err |-> "nil"]]
        /\ UNCHANGED <<kite, schedVarsButLogin>>

\* one login attempt after another, over every answer of the provider
NextLogin ==
    \/ DoAutoLogin
    \/ \E r \in Responses(1, Locations1, {"none"}) : Step1(r)
    \/ \E r \in Responses(2, {NoLocation}, Statuses) : Step2(r)
    \/ \E r \in Responses(3, {NoLocation}, Statuses) \cup {TotpError} : Step3(r)
    \/ \E r \in Responses(4, Locations4, {"none"}) : Step4(r)
    \/ \E r \in Responses(5, Locations5, {"none"}) : Step5(r)

SpecLogin == Init /\ [][NextLogin]_vars

\* ================================================================ claims
Row(l, name) == l[FirstRow(l, name)]
HasRow(l, name) == FirstRow(l, name) # 0

StartupEligible == {n \in TaskNames : ShouldRunOnStartup(n)}
Reads == [TaskNames -> {"ok", "err"}]

\* the step moves no execution on and the clock stands still, as in every
\* step of Start(): the steps of the executions and of the clock are
\* told apart from a Start() before its ledger reads are worked out
OnlyLaunches == now' = now /\ runs \sqsubseteq runs'

\* the step is a Start() of an initialized scheduler
StartStep == OnlyLaunches /\ \E read \in Reads : Start(read)

\* the step is the return of run's UpdateLastRun with a nil error
UlrCommit(run) ==
    /\ run.pc = "ulr"
    /\ runs' = Step(runs, run,
                    [run EXCEPT !.t = ZeroTime, !.ulr = "nil", !.pc = "body",
                                !.hist = (IF run.t = ZeroTime
                                          THEN Append(run.hist, "ulr_call")
                                          ELSE run.hist) \o <<"ulr_ret", "run_start">>])
    /\ runs' # runs

\* the timestamp of the ledger call run is in, as long as it has not ended
CallTime(run) == IF run.t = ZeroTime THEN now ELSE run.t

\* C1: once an UpdateLastSuccessfulRun of day D is the task's last recorded
\* success (its UpdateLastRun went before), a ShouldRunToday whose read
\* succeeds answers false as long as the date is D, whatever UpdateLastRun
\* calls and restarts follow, and true as soon as the date is later than D.
C1_RunsAgainOnlyOnALaterDate ==
    \A n \in TaskNames :
        lastSucc[n] # ZeroTime =>
            LET d == ShouldRunToday(ledger, n, now, "ok")
            IN  /\ ~d.err
                /\ d.run <=> DateOf(lastSucc[n]) < DateOf(now)

\* a success of today, followed by a later UpdateLastRun of the same task
C1_Witness ==
    \E n \in TaskNames :
        /\ lastSucc[n] # ZeroTime
        /\ DateOf(lastSucc[n]) = DateOf(now)
        /\ HasRow(ledger, n)
        /\ ~Row(ledger, n).success
        /\ ~ShouldRunToday(ledger, n, now, "ok").run

\* C2: an UpdateLastRun that returns nil after another UpdateLastRun of the
\* same task was the last write of its row leaves exactly one row of that
\* task, with last_run the timestamp of this second call and success false.
C2_SecondUpdateLastRunOverwrites ==
    [][\A run \in Running :
         (/\ UlrCommit(run)
          /\ HasRow(ledger, run.task)
          /\ ~Row(ledger, run.task).success)
         => /\ Cardinality(RowsOf(ledger', run.task)) = 1
            /\ Row(ledger', run.task).last_run = CallTime(run)
            /\ ~Row(ledger', run.task).success]_vars

\* two executions of one task are both past their UpdateLastRun, the second
\* made on a later interval than the first
C2_Witness ==
    \E r1 \in Running, r2 \in Running :
        /\ r1 # r2 \/ CopiesIn(r1, runs) > 1
        /\ r1.task = r2.task
        /\ r1.pc = "body" /\ r1.ulr = "nil"
        /\ r2.pc = "body" /\ r2.ulr = "nil"
        /\ Cardinality(RowsOf(ledger, r1.task)) = 1
        /\ Row(ledger, r1.task).last_run = now
        /\ now > FirstTime
        /\ ~Row(ledger, r1.task).success

\* C3: every step leaves at most one row per task name, and keeps a row of
\* every task name that had one.
C3_OneRowPerTaskNeverRemoved ==
    [][\A n \in TaskNames :
         /\ Cardinality(RowsOf(ledger', n)) <= 1
         /\ HasRow(ledger, n) => HasRow(ledger', n)]_vars

\* both tasks have their row, one of them written by two executions
C3_Witness ==
    /\ \A n \in TaskNames : Cardinality(RowsOf(ledger, n)) = 1
    /\ \E n \in TaskNames : Row(ledger, n).success
    /\ \E run \in Running : run.pc = "body" /\ run.ulr = "nil"

\* the order of the events of one execution
RunOrder == <<"ulr_call", "ulr_ret", "run_start", "run_ret", "ulsr_call", "ulsr_ret">>

\* C4: on every launch path the events of an execution come in the order
\* UpdateLastRun call, its return, body start, body return,
\* UpdateLastSuccessfulRun call: the body executes only after UpdateLastRun
\* returned, and an execution is at UpdateLastSuccessfulRun only after its
\* body returned, and returned nil.
C4_LedgerCallsBracketTheBody ==
    \A run \in Running :
        /\ Len(run.hist) <= Len(RunOrder)
        /\ run.hist = SubSeq(RunOrder, 1, Len(run.hist))
        /\ run.pc = "ulr" <=> Len(run.hist) <= 1
        /\ run.pc = "body" <=> Len(run.hist) = 3
        /\ run.pc = "body" => run.ulr # "none" /\ run.body = "none"
        /\ run.pc = "ulsr" <=> Len(run.hist) \in {4, 5}
        /\ run.pc = "ulsr" => run.body = "nil"

\* a cron fire has recorded its start, run its body without error and
\* stands at UpdateLastSuccessfulRun
C4_Witness ==
    \E run \in Running :
        /\ run.path = "cron" /\ run.pc = "ulsr" /\ run.body = "nil"
        /\ run.hist = SubSeq(RunOrder, 1, 4)
        /\ HasRow(ledger, run.task)

C6_StartLaunchesOneCatchUpRun ==
    /\ [][\A read \in Reads :
            (/\ OnlyLaunches
             /\ Start(read)
             /\ read[DailyTradesFetch] = "ok"
             /\ GetLastSuccessfulRun(ledger, DailyTradesFetch) = ZeroTime)
            => /\ runs' = runs (+) SetToBag({NewRun("startup", DailyTradesFetch)})
               /\ launched' = launched + 1
               /\ sched'.stopping = "no"
               /\ NewRun("startup", DailyTradesFetch).hist = <<>>]_vars
    /\ [](\A run \in Running :
            (run.path = "startup" /\ Len(run.hist) >= 3)
            => /\ SubSeq(run.hist, 1, 3) = <<"ulr_call", "ulr_ret", "run_start">>
               /\ (run.pc = "body" /\ run.ulr = "nil") => HasRow(ledger, run.task))

\* the catch-up run of a task that never succeeded is in its body while the
\* scheduler runs
C6_Witness ==
    /\ sched.cron = "running"
    /\ lastSucc[DailyTradesFetch] = ZeroTime
    /\ \E run \in Running :
          /\ run.path = "startup" /\ run.task = DailyTradesFetch
          /\ run.pc = "body" /\ run.ulr = "nil"
    /\ Cardinality(RowsOf(ledger, DailyTradesFetch)) = 1

C8_NoCatchUpAfterSuccessToday ==
    [][\A n \in StartupEligible :
         (/\ StartStep
          /\ lastSucc[n] # ZeroTime
          /\ DateOf(lastSucc[n]) = DateOf(now))
         => /\ CopiesIn(NewRun("startup", n), runs') = CopiesIn(NewRun("startup", n), runs)
            /\ launched' = launched]_vars

\* a Start() has skipped the task because of today's success
C8_Witness ==
    /\ sched.cron = "running"
    /\ DailyTradesFetch \in sched.skipped
    /\ DateOf(lastSucc[DailyTradesFetch]) = DateOf(now)
    /\ \A run \in Running : run.path # "startup"

\* C9: a call that found a cached access token and whose probe ended in a
\* 200 response returns that token and no error, having made no login, no
\* exchange and no write: the row is as the call found it.
C9_ValidCachedTokenIsReturnedUntouched ==
    (kite.pc = "returned" /\ kite.cached # EmptyToken /\ kite.probe = "200")
    => /\ kite.ret = [token |-> kite.cached, err |-> "nil"]
       /\ kite.logins = 0
       /\ kite.exchanges = 0
       /\ kite.writes = 0
       /\ kite.auth = kite.auth0

\* a second call has returned the token the first one stored
C9_Witness ==
    /\ kite.pc = "returned" /\ kite.calls = 2
    /\ kite.cached # EmptyToken /\ kite.probe = "200"
    /\ kite.ret.token = kite.cached
    /\ AccessTokenOf(kite.auth) = kite.cached

\* C10: in a call that found a cached access token and whose probe did not
\* end in a 200 response, the cached token is not returned without an
\* exchange, at most 3 exchanges are attempted and DoAutoLogin is invoked
\* at most 3 times.
C10_ExpiredTokenBoundedCascade ==
    (kite.cached # EmptyToken /\ kite.probe \notin {"none", "200"})
    => /\ kite.exchanges <= tokenMaxRetries + 1
       /\ kite.logins <= tokenMaxRetries + 1
       /\ kite.pc \in {"login0", "exchange", "login", "store", "returned"}
       /\ (kite.pc = "returned" /\ kite.ret.err = "nil") =>
             /\ kite.exchanges >= 1
             /\ kite.ret.token = kite.accessToken

\* a call with an expired cached token has used up its three exchanges
C10_Witness ==
    /\ kite.pc = "returned" /\ kite.ret.err = "err"
    /\ kite.cached # EmptyToken /\ kite.probe = "403 TokenException"
    /\ kite.exchanges = tokenMaxRetries + 1
    /\ kite.logins = tokenMaxRetries

\* C11 as claimed: within one call no request token is sent to the
\* provider twice: every retry carries a token that was not sent before.
C11_RetryUsesFreshRequestToken ==
    \A i, j \in 1..Len(kite.submitted) :
        (i < j /\ kite.submitted[i].call = kite.submitted[j].call)
        => kite.submitted[i].token # kite.submitted[j].token

\* C12 as claimed: a request token the provider has accepted is never sent
\* to it again, in the same call or a later one.
C12_ExchangedRequestTokenNotResubmitted ==
    \A i, j \in 1..Len(kite.submitted) :
        (i < j /\ kite.submitted[i].ok)
        => kite.submitted[i].token # kite.submitted[j].token

\* C13 as claimed: a call made while a static secret of the account is
\* absent returns an error and no token, whatever the credential row holds.
C13_MissingSecretsFailTheCall ==
    (kite.pc = "returned" /\ ~kite.secrets)
    => kite.ret = [token |-> EmptyToken, err |-> "err"]

\* C14: the probe is fail-closed: a call that probed its cached token
\* returns it untouched (no login, no exchange) exactly when the profile
\* request ended in a 200 response; after every other outcome the call is
\* on the login/exchange path or has returned from it.
C14_ProbeFailClosed ==
    kite.probe # "none"
    => /\ (/\ kite.pc = "returned"
           /\ kite.ret = [token |-> kite.cached, err |-> "nil"]
           /\ kite.exchanges = 0 /\ kite.logins = 0)
          <=> StatusCode(kite.probe) = 200
       /\ StatusCode(kite.probe) # 200 =>
             /\ kite.pc \in {"login0", "exchange", "login", "store", "returned"}
             /\ kite.pc = "returned" => (kite.ret.err = "err" \/ kite.exchanges >= 1)

\* a 403 that is no TokenException has sent the call to the exchange
C14_Witness ==
    /\ kite.probe = "403" /\ kite.cached # EmptyToken
    /\ kite.pc = "exchange" /\ kite.exchanges = 0

\* C15: a call that went through the exchange returns a token only from
\* the persisting step, and then the credential row holds exactly the
\* returned access token; when the row does not take the new token the
\* call returns an error and no token, as does every other failure after
\* the exchange path was entered.
C15_ExchangedTokenPersistedBeforeReturn ==
    [][/\ (kite.pc # "returned" /\ kite'.pc = "returned" /\ kite'.exchanges >= 1)
          => IF kite'.ret.err = "nil"
             THEN /\ kite.pc = "store"
                  /\ kite'.ret.token = kite.accessToken
                  /\ kite'.ret.token # EmptyToken
                  /\ AccessTokenOf(kite'.auth) = kite'.ret.token
             ELSE kite'.ret.token = EmptyToken
       /\ (kite.pc = "store" /\ AccessTokenOf(kite'.auth) # kite.accessToken)
          => kite'.ret = [token |-> EmptyToken, err |-> "err"]]_vars

\* a refreshed token has been returned and the row holds it in place of
\* the expired one
C15_Witness ==
    /\ kite.pc = "returned" /\ kite.ret.err = "nil" /\ kite.exchanges >= 1
    /\ kite.cached # EmptyToken /\ kite.ret.token # kite.cached
    /\ AccessTokenOf(kite.auth) = kite.ret.token

\* the ledger call of caller c
Proc(c) == ledgerCalls.proc[c]

\* C16: a ledger call makes at most maxRetries attempts; every attempt
\* but the last ended busy, so a further attempt follows a busy one only;
\* before the k-th further attempt the call slept initialBackoff * 2^(k-1)
\* (10, 20, 40, 80) and it does not sleep after its last attempt; an
\* attempt that ended ok or in another error is the last one, and the call
\* returns nil or that error.
C16_BoundedRetryPolicy ==
    \A c \in Callers :
        LET p == Proc(c)
            n == Len(p.hist)
        IN  /\ n <= maxRetries
            /\ p.pc \in {"first", "write"} => (n = p.i /\ n < maxRetries)
            /\ \A k \in 1..n :
                  (k < n \/ p.pc # "returned") => p.hist[k] = "busy"
            /\ Len(p.waits) = (IF p.pc = "returned" THEN n - 1 ELSE n)
            /\ Len(p.waits) <= maxRetries - 1
            /\ \A k \in 1..Len(p.waits) : p.waits[k] = initialBackoff * 2^(k - 1)
            /\ p.pc = "returned"
               => /\ n >= 1
                  /\ p.res = (IF p.hist[n] = "ok" THEN "nil" ELSE p.hist[n])

\* a call has succeeded at its fifth attempt, after all four sleeps
C16_Witness ==
    \E c \in Callers :
        /\ Proc(c).pc = "returned" /\ Proc(c).res = "nil"
        /\ Proc(c).hist = <<"busy", "busy", "busy", "busy", "ok">>
        /\ Proc(c).waits = <<10, 20, 40, 80>>

\* C17 as claimed: no ledger call returns a busy/locked error.
C17_BusyNeverSurfaces ==
    \A c \in Callers : Proc(c).pc = "returned" => Proc(c).res # "busy"

\* C17: a ledger call returns a busy/locked error exactly when all of its
\* maxRetries attempts ended busy; with fewer busy attempts in a row the
\* error does not reach the caller.
C17_BusySurfacesOnlyAfterAllAttempts ==
    \A c \in Callers :
        Proc(c).pc = "returned"
        => /\ Proc(c).res = "busy"
              <=> Proc(c).hist = [k \in 1..maxRetries |-> "busy"]
           /\ Proc(c).res = "busy" => Len(Proc(c).waits) = maxRetries - 1

\* a call has returned the busy error of its fifth attempt
C17_Witness ==
    \E c \in Callers :
        /\ Proc(c).pc = "returned" /\ Proc(c).res = "busy"
        /\ Len(Proc(c).hist) = maxRetries

Engine(sc) == <<sc.started, sc.cron, sc.entryToTask, sc.next, sc.ctxDone>>

\* C19: an Initialize call on a started scheduler leaves the engine, its
\* entries, the lookup and the context as they are, and whenever the
\* scheduler is started the lookup holds one entry per task of the roster
\* and no other.
C19_InitializeIsIdempotent ==
    [][/\ (Initialize /\ sched.started) => Engine(sched') = Engine(sched)
       /\ sched'.started
          => /\ Len(sched'.entryToTask) = Len(Tasks)
             /\ \A n \in TaskNames :
                   Cardinality({i \in 1..Len(sched'.entryToTask) :
                                   sched'.entryToTask[i] = n}) = 1]_vars

\* Initialize has been called again on a scheduler whose engine runs
C19_Witness ==
    /\ sched.started /\ sched.again /\ sched.cron = "running"
    /\ sched.entryToTask = Tasks
    /\ \A n \in TaskNames : sched.next[n] # ZeroTime

\* C20: when no Stop() is in progress and the scheduler is not started
\* (never initialized, or Stop() has returned), no execution launched by
\* a cron fire or as a startup catch-up is in flight and the engine is not
\* running, so it issues no fire; while Stop() is in progress the engine
\* issues no fire either.
C20_StopReturnsAfterAllExecutions ==
    /\ (~sched.started /\ sched.stopping = "no")
       => /\ InFlight(runs, {"cron", "startup"}) = {}
          /\ sched.cron # "running"
          /\ \A t \in Times : Due(sched, t) = {}
    /\ sched.stopping # "no" => sched.cron = "stopped"

\* Stop() has returned on a scheduler that had launched executions: the
\* engine is stopped, the context cancelled, and the executions have left
\* their rows
C20_Witness ==
    /\ ~sched.started /\ sched.stopping = "no"
    /\ sched.cron = "stopped" /\ sched.ctxDone
    /\ launched >= 1
    /\ \E n \in TaskNames : HasRow(ledger, n)
    /\ InFlight(runs, {"cron", "startup"}) = {}

\* C21 as claimed: whenever Stop() is blocked on executions in flight (on
\* the engine's jobs at <-ctx.Done(), or on the cron and startup
\* executions at s.wg.Wait()), the shared context is already cancelled.
C21_CancelRaisedBeforeStopWaits ==
    (\/ sched.stopping = "drain" /\ InFlight(runs, {"cron"}) # {}
     \/ sched.stopping = "wait" /\ InFlight(runs, {"cron", "startup"}) # {})
    => sched.ctxDone

\* C22: a Stop() call that finds the scheduler not started (never
\* initialized, or stopped by an earlier Stop() that has released the
\* mutex) leaves the engine, the lookup and the context as they are, does
\* not enter the waiting phases and ends no execution.
C22_StopIsIdempotent ==
    [][(StopBegin /\ ~sched.started)
       => /\ Engine(sched') = Engine(sched)
          /\ sched'.stopping = "no"
          /\ runs' = runs]_vars

\* Stop() has been called again after a Stop() that had stopped the
\* engine and cancelled the context
C22_Witness ==
    /\ ~sched.started /\ sched.again /\ sched.stopping = "no"
    /\ sched.cron = "stopped" /\ sched.ctxDone

\* C23 as claimed: GetNextRunTimes() answers a non-empty mapping only
\* between Start() and the return of Stop(), that is only when the engine
\* has been started; before Initialize, between Initialize and Start()
\* and after Stop() it answers nothing.
C23_NextRunTimesOnlyBetweenStartAndStop ==
    DOMAIN GetNextRunTimes(sched) # {}
    => (sched.cron = "running" \/ sched.stopping # "no")

\* the step is a failure inside the execution run: its body returns an
\* error, or one of its ledger writes does
BodyFails(run) == TaskRun(run, "err")
LedgerWriteFails(run) ==
    \/ UpdateLastRun(run, 0, "fail")
    \/ UpdateLastSuccessfulRun(run, 0, "fail")

\* C24: a step in which the body of an execution returns an error, or a
\* ledger write of an execution fails, leaves the scheduler as it is
\* (started, engine, entries and their next fires, context) and every
\* other execution in flight where it stands; after a failed
\* UpdateLastRun the execution goes on to its body.
C24_FailureIsolation ==
    [][\A run \in {r \in Running : CopiesIn(r, runs') < CopiesIn(r, runs)} :
          /\ (BodyFails(run) \/ LedgerWriteFails(run))
             => /\ sched' = sched
                /\ (runs (-) SetToBag({run})) \sqsubseteq runs'
          /\ UpdateLastRun(run, 0, "fail")
             => \E after \in BagToSet(runs') :
                   /\ after.path = run.path /\ after.task = run.task
                   /\ after.pc = "body"]_vars

\* an execution of a task has ended without success and the engine has
\* fired the same task afterwards
C24_Witness ==
    \E run \in Running :
        /\ run.path = "cron" /\ run.pc = "ulr"
        /\ BagCardinality(runs) = 1 /\ launched = 2
        /\ sched.started /\ sched.cron = "running"
        /\ HasRow(ledger, run.task)
        /\ ~Row(ledger, run.task).success
        /\ Row(ledger, run.task).last_successful_run = ZeroTime

\* C25 as claimed: right after an execution whose body returned an error
\* has finished, the ledger has a row for its task and the row's success
\* flag is false.
C25_FailedRunRecordedUnsuccessful ==
    [][\A run \in Running :
          BodyFails(run)
          => /\ HasRow(ledger', run.task)
             /\ ~Row(ledger', run.task).success]_vars

\* the step that met r went through: a response came, with a session id
\* in its Location (step 1), a body of status success (steps 2 and 3), a
\* Location (step 4), a request token in its Location (step 5)
Succeeded(step, r) ==
    /\ r.kind = "response"
    /\ step = 1 => FindStringSubmatch("sess_id", r.location) # <<>>
    /\ step \in {2, 3} => r.status = "success"
    /\ step = 4 => r.location # NoLocation
    /\ step = 5 => FindStringSubmatch("request_token", r.location) # <<>>

\* C26: the requests of one DoAutoLogin call are those of the steps 1, 2,
\* 3, ... in that order, each once and at most five; a step is entered
\* only when every earlier step went through; the first step that does
\* not go through ends the call with an error and no request token; a
\* token is returned only after all five.
C26_LoginStepsSequentialNoRetry ==
    LET l == autoLogin
        n == Len(l.resps)
    IN  /\ n <= 5 /\ Len(l.sent) <= n
        /\ \A k \in 1..Len(l.sent) : l.sent[k].step = k
        /\ \A k \in 1..n : \A j \in 1..(k - 1) : Succeeded(j, l.resps[j])
        /\ (\E k \in 1..n : ~Succeeded(k, l.resps[k]))
           => (l.pc = "returned" /\ l.ret = [token |-> <<>>, err |-> "err"])
        /\ (l.pc = "returned" /\ l.ret.err = "nil")
           => (n = 5 /\ Len(l.sent) = 5 /\ l.ret.token # <<>>)
        /\ l.pc = "step1" => n = 0
        /\ l.pc = "step2" => n = 1
        /\ l.pc = "step3" => n = 2
        /\ l.pc = "step4" => n = 3
        /\ l.pc = "step5" => n = 4

\* the second factor was refused: the call has returned an error after
\* three requests, without the two redirect hops
C26_Witness ==
    /\ autoLogin.pc = "returned" /\ autoLogin.ret.err = "err"
    /\ Len(autoLogin.sent) = 3 /\ Len(autoLogin.resps) = 3
    /\ autoLogin.resps[3].kind = "response"
    /\ autoLogin.resps[3].status = "error"

\* the query string of a URL: what stands after the first "?" and before
\* the fragment
QueryOf(url) ==
    LET hashes == {i \in 1..Len(url) : url[i] = "#"}
        end    == IF hashes = {} THEN Len(url) ELSE Min(hashes) - 1
        marks  == {i \in 1..end : url[i] = "?"}
    IN  IF marks = {} THEN <<>> ELSE SubSeq(url, Min(marks) + 1, end)

\* the positions in a query string where the parameter called name
\* stands: at the beginning or after "&", the name alone before "="
ParamsNamed(name, q) ==
    {i \in 1..(Len(q) - 1) :
        /\ i = 1 \/ q[i - 1] = "&"
        /\ q[i] = name /\ q[i + 1] = "="}

\* C27 as claimed: DoAutoLogin returns a request token only if the step-1
\* Location held a session id, the credentials and the second factor were
\* answered with status success, both hops answered a Location, and the
\* last Location has a query parameter request_token; the token returned
\* is the value of that parameter.
C27_TokenIsTheRequestTokenParameter ==
    LET l == autoLogin
    IN  (l.pc = "returned" /\ l.ret.err = "nil")
        => /\ Len(l.resps) = 5
           /\ FindStringSubmatch("sess_id", l.resps[1].location) # <<>>
           /\ l.resps[2].status = "success"
           /\ l.resps[3].status = "success"
           /\ l.resps[4].location # NoLocation
           /\ l.resps[5].location # NoLocation
           /\ LET q == QueryOf(l.resps[5].location)
              IN  /\ ParamsNamed("request_token", q) # {}
                  /\ l.ret.token
                        = Capture(q, Min(ParamsNamed("request_token", q)) + 2)

\* C28 as claimed: a GetNextRunTimes() call reads started, the engine's
\* entries and the lookup only while no other operation holds the
\* scheduler's mutex, that is not while a Stop() is between its
\* s.cron.Stop() and its started = false.
C28_ReadsHoldTheLock ==
    [][GetNextRunTimesCall => sched.stopping = "no"]_vars

\* C29 as claimed: every request of a DoAutoLogin call carries every
\* cookie set by the responses of all earlier steps of that call.
C29_RequestsCarryAllEarlierCookies ==
    \A k \in 1..Len(autoLogin.sent) :
        autoLogin.sent[k].cookies
           = UNION {autoLogin.resps[j].cookies : j \in 1..(autoLogin.sent[k].step - 1)}

\* the rows of the tasks other than name
OtherRows(l, name) == SelectSeq(l, LAMBDA row : row.task_name # name)

\* the ledger after the step holds one row for name, with the given
\* values, and the rows of the other tasks as they were
WroteRow(name, lastRun, lastOk, ok) ==
    /\ Cardinality(RowsOf(ledger', name)) = 1
    /\ Row(ledger', name) = NewRow(name, lastRun, lastOk, ok)
    /\ OtherRows(ledger', name) = OtherRows(ledger, name)

\* C30: whatever other executions of the same task are in flight, manual
\* or scheduled, a committed ledger write leaves exactly one row for the
\* task and that row is wholly the one this write saves: UpdateLastRun
\* saves its own time as last_run, success false and the
\* last_successful_run it read in its transaction; UpdateLastSuccessfulRun
\* saves its own time as last_run and last_successful_run and success
\* true. The ledger changes in no other step, so the row is always the
\* one of the write that committed last.
C30_LastWriteWins ==
    [][/\ \A run \in {r \in Running : CopiesIn(r, runs') < CopiesIn(r, runs)} :
             /\ UpdateLastRun(run, 0, "ok")
                => WroteRow(run.task, now,
                            GetLastSuccessfulRun(ledger, run.task), FALSE)
             /\ UpdateLastSuccessfulRun(run, 0, "ok")
                => WroteRow(run.task, now, now, TRUE)
       /\ ledger' # ledger
          => \E run \in Running : \/ UpdateLastRun(run, 0, "ok")
                                  \/ UpdateLastSuccessfulRun(run, 0, "ok")]_vars

\* a manual execution and a scheduled one of the same task overlap: the
\* scheduled one has committed its UpdateLastRun and runs its body, the
\* manual one has committed its UpdateLastRun after it, its body has
\* returned and it stands before UpdateLastSuccessfulRun
C30_Witness ==
    \E manual \in Running, scheduled \in Running :
        /\ manual.path = "manual" /\ scheduled.path # "manual"
        /\ manual.task = scheduled.task
        /\ scheduled.pc = "body" /\ scheduled.ulr = "nil"
        /\ manual.pc = "ulsr"
        /\ HasRow(ledger, manual.task)
        /\ Row(ledger, manual.task).last_run = now
        /\ now > FirstTime
        /\ ~Row(ledger, manual.task).success

\* the step is a failure of the call for a credential reason while the
\* secrets are configured and the store answers: the provider rejects the
\* exchange, or the login flow fails
CredentialFailure ==
    /\ kite.secrets
    /\ \/ Exchange("err")
       \/ \E store \in {"ok", "err"} : \/ LoginFirst("failed", store, "ok")
                                       \/ LoginAgain("failed", store, "ok")
    /\ kite'.pc = "returned" /\ kite'.ret.err = "err"

\* C31 as claimed: a call fails for a credential reason only after all 3
\* exchange attempts have been made in it, each retry after a login cycle
\* of its own.
C31_CredentialErrorOnlyAfterCascade ==
    [][CredentialFailure
       => /\ kite'.exchanges = tokenMaxRetries + 1
          /\ kite'.logins >= tokenMaxRetries]_vars

\* the part of C31 about the exchange: a call that fails on a rejected
\* exchange has made all 3 attempts, with a login cycle before each retry
C31_RejectedExchangeOnlyAfterCascade ==
    [][(kite.secrets /\ Exchange("err") /\ kite'.pc = "returned")
       => /\ kite'.exchanges = tokenMaxRetries + 1
          /\ kite'.logins >= tokenMaxRetries]_vars

\* the rows of apiKey, and the rows of the other api keys
OwnRows(table, apiKey) == SelectSeq(table, LAMBDA row : row.api_key = apiKey)
ForeignRows(table, apiKey) == SelectSeq(table, LAMBDA row : row.api_key # apiKey)

RanWithoutSuccessToday(name) ==
    /\ HasRow(ledger, name)
    /\ ~Row(ledger, name).success
    /\ DateOf(Row(ledger, name).last_successful_run) # DateOf(now)

\* C32: when the row of a startup-eligible task shows a run without
\* success as its latest write and no success of today, a Start() whose
\* ledger read for that task succeeds launches one startup execution of
\* it.
C32_CatchUpAfterUnsuccessfulRun ==
    [][\A name \in StartupEligible :
          (OnlyLaunches /\ RanWithoutSuccessToday(name))
          => \A read \in Reads :
                (read[name] = "ok" /\ Start(read))
                => /\ CopiesIn(NewRun("startup", name), runs')
                         = CopiesIn(NewRun("startup", name), runs) + 1
                   /\ launched' > launched]_vars

\* after a run of today that recorded UpdateLastRun and no success, the
\* process has started again and its Start() has launched the catch-up
\* run, which has not written yet
C32_Witness ==
    \E run \in Running :
        /\ run.path = "startup" /\ run.pc = "ulr" /\ run.hist = <<>>
        /\ BagCardinality(runs) = 1 /\ launched = 2
        /\ sched.cron = "running"
        /\ RanWithoutSuccessToday(run.task)
        /\ DateOf(Row(ledger, run.task).last_run) = DateOf(now)

\* the context given to the body of run is cancelled
BodyContextDone(run) == BodyContext(run) = "s.ctx" /\ sched.ctxDone

\* C34 as claimed: once Stop() has raised the cancellation, the body of
\* every execution in flight, whatever launched it, has it raised in the
\* context it was given.
C34_CancellationReachesEveryBody ==
    \A run \in Running :
        (sched.ctxDone /\ run.pc = "body") => BodyContextDone(run)

\* the part of C34 about the scheduler's own launch paths
C34_CancellationReachesScheduledBodies ==
    \A run \in Running :
        (sched.ctxDone /\ run.pc = "body" /\ run.path # "manual")
        => BodyContextDone(run)

\* C35: an UpdateLastRun on an existing row leaves its position, its
\* task name, its last_successful_run and its created_at as they were,
\* sets last_run and updated_at to the time of the call and success to
\* false, and leaves every other row alone; what ShouldRunToday answers
\* for the task is the same before and after, so it stays false on a day
\* with a success recorded.
C35_UpdateLastRunKeepsLastSuccess ==
    [][\A name \in TaskNames :
          (UpdateLastRunCall(name) /\ HasRow(taskExecutions, name))
          => /\ Len(taskExecutions') = Len(taskExecutions)
             /\ \A i \in 1..Len(taskExecutions) :
                   IF i = FirstRow(taskExecutions, name)
                   THEN taskExecutions'[i] =
                           [taskExecutions[i] EXCEPT !.last_run = now,
                                                     !.success = FALSE,
                                                     !.updated_at = now]
                   ELSE taskExecutions'[i] = taskExecutions[i]
             /\ ShouldRunToday(taskExecutions', name, now, "ok")
                   = ShouldRunToday(taskExecutions, name, now, "ok")
             /\ DateOf(Row(taskExecutions, name).last_successful_run) = DateOf(now)
                => ~ShouldRunToday(taskExecutions', name, now, "ok").run]_vars

\* a row created on an earlier day holds a success of today and, after
\* it, an UpdateLastRun of a later run of today
C35_Witness ==
    \E name \in TaskNames :
        /\ HasRow(taskExecutions, name)
        /\ ~Row(taskExecutions, name).success
        /\ DateOf(Row(taskExecutions, name).last_successful_run) = DateOf(now)
        /\ Row(taskExecutions, name).last_run
              > Row(taskExecutions, name).last_successful_run
        /\ DateOf(Row(taskExecutions, name).created_at) < DateOf(now)
        /\ Row(taskExecutions, name).updated_at = Row(taskExecutions, name).last_run

\* C36 as claimed: in every row last_successful_run is not later than
\* last_run, and success = true implies last_run = last_successful_run,
\* whatever the interleaving of the callers and the retries that delay
\* their writes.
C36_LastSuccessNotAfterLastRun ==
    \A i \in 1..Len(ledger) :
        /\ ledger[i].last_successful_run <= ledger[i].last_run
        /\ ledger[i].success => ledger[i].last_run = ledger[i].last_successful_run

\* the part of C36 about rows with success = true
C36_SuccessRowsHaveEqualTimes ==
    \A i \in 1..Len(ledger) :
        ledger[i].success => ledger[i].last_run = ledger[i].last_successful_run

\* C37: when the ledger read of ShouldRunToday fails for a
\* startup-eligible task, ShouldRunToday answers false with the error,
\* and Start() adds no execution of that task, writes nothing to the
\* ledger and does not count the task as already run today; it still
\* starts the engine and goes through the other tasks of the roster,
\* launching those that are eligible and due.
C37_FailedReadSkipsTheStartupTask ==
    [][\A read \in Reads, name \in StartupEligible :
          (read[name] = "err" /\ OnlyLaunches /\ Start(read))
          => /\ ShouldRunToday(ledger, name, now, read[name])
                   = [run |-> FALSE, err |-> TRUE]
             /\ \A run \in BagToSet(runs') :
                   run.task = name => CopiesIn(run, runs') = CopiesIn(run, runs)
             /\ ledger' = ledger
             /\ name \notin sched'.skipped
             /\ sched'.cron = "running"
             /\ \A other \in TaskNames \ {name} :
                   CopiesIn(NewRun("startup", other), runs')
                      = CopiesIn(NewRun("startup", other), runs)
                        + (IF other \in StartupTasks(read) THEN 1 ELSE 0)]_vars

\* the engine runs after a Start() on a ledger that holds no success of
\* today for the startup-eligible task, and no execution was launched:
\* the read had failed
C37_Witness ==
    /\ sched.cron = "running" /\ sched.skipped = {}
    /\ runs = EmptyBag /\ launched = 0
    /\ \A name \in StartupEligible :
          ShouldRunToday(ledger, name, now, "ok").run

\* the number of executions of task in flight that Start() launched
StartupRunsInFlight(task) ==
    BagCardinality([run \in {r \in Running : r.path = "startup" /\ r.task = task}
                      |-> CopiesIn(run, runs)])

\* C38 as claimed: at any moment at most one startup-launched execution
\* per task is in flight, however often Start() is called.
C38_OneStartupRunPerTask ==
    \A task \in TaskNames : StartupRunsInFlight(task) <= 1

\* the scheduler's engine runs and the entry of task is due at instant t
EntryDue(task, t) ==
    /\ sched.cron = "running"
    /\ \E id \in 1..Len(sched.entryToTask) : sched.entryToTask[id] = task
    /\ sched.next[task] = t

\* C39: when the clock reaches the time of an entry of the running
\* engine, one cron execution of its task is launched whatever the ledger
\* holds, also on a day with a success recorded; and that execution goes
\* from its launch to UpdateLastRun and the body without a ShouldRunToday
\* in between.
C39_CronFireIsUnconditional ==
    /\ [][now' = now + 1
          => \A task \in TaskNames :
                CopiesIn(NewRun("cron", task), runs')
                   = CopiesIn(NewRun("cron", task), runs)
                     + (IF EntryDue(task, now') THEN 1 ELSE 0)]_vars
    /\ [](\A run \in Running :
            (run.path = "cron" /\ Len(run.hist) >= 3)
            => SubSeq(run.hist, 1, 3) = <<"ulr_call", "ulr_ret", "run_start">>)

\* a cron execution of a task is in its body on a day on which a
\* startup or manual run of the task has recorded a success
C39_Witness ==
    \E run \in Running :
        /\ run.path = "cron" /\ run.pc = "body"
        /\ lastSucc[run.task] # ZeroTime
        /\ DateOf(lastSucc[run.task]) = DateOf(now)
        /\ DateOf(GetLastSuccessfulRun(ledger, run.task)) = DateOf(now)

\* the call has just probed its cached token with success
ConfirmedByProbe ==
    /\ kite.cached # EmptyToken
    /\ kite.probe = "200"
    /\ kite.exchanges = 0

\* the last session request was sent by this call and the provider
\* accepted it, handing out the token the call holds
ExchangedInThisCall ==
    /\ kite.exchanges >= 1
    /\ Len(kite.submitted) >= 1
    /\ kite.submitted[Len(kite.submitted)].call = kite.calls
    /\ kite.submitted[Len(kite.submitted)].ok
    /\ kite.accessToken = kite.minted

\* C40: token provenance: a call that has returned either returned no
\* error and a non-empty token, which is the cached access token its own
\* probe has just confirmed or the access token its own successful
\* exchange has just been handed, or it returned an error and the empty
\* token (failed read, failed login, no request token after the login,
\* exchanges exhausted, failed write).
C40_TokenProvenance ==
    kite.pc = "returned"
    => \/ /\ kite.ret.err = "nil"
          /\ kite.ret.token # EmptyToken
          /\ \/ ConfirmedByProbe /\ kite.ret.token = kite.cached
             \/ ExchangedInThisCall /\ kite.ret.token = kite.accessToken
       \/ kite.ret = [token |-> EmptyToken, err |-> "err"]

\* a call that held a cached token found it expired, exchanged with
\* success and failed to write: it has returned an error and no token
C40_Witness ==
    /\ kite.pc = "returned"
    /\ kite.cached # EmptyToken /\ kite.probe # "200" /\ kite.probe # "none"
    /\ ExchangedInThisCall
    /\ kite.ret = [token |-> EmptyToken, err |-> "err"]

\* a call has returned the token of its own exchange, not the cached one
C40_WitnessExchanged ==
    /\ kite.pc = "returned" /\ kite.ret.err = "nil"
    /\ kite.cached # EmptyToken /\ ExchangedInThisCall
    /\ kite.ret.token # kite.cached

====
